---- MODULE Spec2Model ----
(***************************************************************************)
(* The TenantSync relay of api/tenantsync.js (customers, sync pairs,       *)
(* conflicts, version ledger, package queue and chunks, usage metrics,     *)
(* audit log) and the site handlers beside it: generate-flow-protected,    *)
(* the waitlist, sign-in and signup, the Stripe webhook.                   *)
(*                                                                         *)
(* Spec     : package handlers, one request at a time.                     *)
(* SpecConc : upload-chunk requests interleaved statement by statement.    *)
(* SpecApi  : every tenantsync action, one request at a time.              *)
(* SpecAcct : register and create-pair interleaved statement by statement. *)
(* SpecFlow : generate-flow-protected interleaved, with the monthly reset. *)
(* SpecWait : waitlist requests, one at a time, with a clock.              *)
(* SpecAuth : signup and sign-in requests, one at a time.                  *)
(* SpecHook : Stripe webhook requests, one at a time.                      *)
(***************************************************************************)
EXTENDS Integers, Sequences, FiniteSets, Bags, TLC

\* ------------------------------------------------------------------ bounds
\* rows ts_sync_queue may hold
MaxQueue == 2
\* chunk_index values a client sends: 0..MaxIndex
MaxIndex == 1
\* total_chunks values a client declares: 0..MaxTotal (0 stands for absent too)
MaxTotal == 2
\* rows ts_audit_log may hold
MaxAudit == 2
\* rows ts_package_chunks may hold
MaxChunkRows == 2
\* upload-chunk requests in flight at once under SpecConc
MaxInflight == 2

\* ------------------------------------------------------------------ values
\* SQL NULL / a JSON field that is absent
NULL == "<null>"
\* chunk_index absent from the body (chunk_index === undefined)
UNDEF == 0 - 1
\* an id field absent from the body or query (falsy)
NoId == 0

\* JavaScript truthiness of a string-or-absent value
Truthy(s) == s # NULL /\ s # ""

\* String.prototype.length / SQL LENGTH()
Length(s) == Len(s)

\* MAX_INLINE_SIZE (4 * 1024 * 1024 characters of base64), in the unit the blobs below
\* are measured in: blob "a" is within the threshold, blob "bb" exceeds it
MAX_INLINE_SIZE == 1

\* package_base64 values a client sends
Blobs == {NULL, "", "a", "bb"}
\* chunk_data values a client sends that pass validation
ChunkDatas == {"a", "bb"}
\* total_chunks values a client sends
Totals == 0..MaxTotal

\* ------------------------------------------------------------------ customers
\* hashApiKey: SHA-256 of the key, hex
hashApiKey(apiKey) == <<"sha256", apiKey>>

\* the max_sync_pairs a registration gets (column default of ts_customers, RETURNING
\* max_sync_pairs in handleRegister)
StarterMaxSyncPairs == 1

\* the ts_customers rows present before any registration modelled: an active customer
\* below its pair limit, a trial customer at its limit, a canceled customer
ts_customers ==
    { [id |-> "c1", company_name |-> "co1", contact_email |-> "e1",
       api_key_hash |-> hashApiKey("k1"), subscription_tier |-> "enterprise",
       subscription_status |-> "active",
       max_sync_pairs |-> 2, bidirectional_enabled |-> TRUE],
      [id |-> "c2", company_name |-> "co2", contact_email |-> "e2",
       api_key_hash |-> hashApiKey("k2"), subscription_tier |-> "starter",
       subscription_status |-> "trial",
       max_sync_pairs |-> 1, bidirectional_enabled |-> FALSE],
      [id |-> "c3", company_name |-> "co3", contact_email |-> "e3",
       api_key_hash |-> hashApiKey("k3"), subscription_tier |-> "starter",
       subscription_status |-> "canceled",
       max_sync_pairs |-> 1, bidirectional_enabled |-> FALSE] }

\* X-API-Key header values a client sends: those of the customers in good standing,
\* and none, a canceled customer's, an unknown one
GoodKeys == {"k1", "k2"}
BadKeys == {NULL, "k3", "kx"}

\* validateApiKey without the subscription_status condition
validateApiKey_AnyStatus(cust, apiKey) ==
    { c \in cust : c.api_key_hash = hashApiKey(apiKey) }

\* validateApiKey: the customer rows the key selects
validateApiKey(cust, apiKey) ==
    { c \in cust : c.api_key_hash = hashApiKey(apiKey)
                   /\ c.subscription_status \in {"active", "trial"} }

\* the ts_sync_pairs rows present before any create-pair modelled: one pair per
\* customer in good standing; row i has id i
ts_sync_pairs ==
    << [id |-> 1, customer_id |-> "c1", pair_name |-> "p1", sync_direction |-> "one_way",
        last_sync_status |-> NULL, flows_synced |-> 0],
       [id |-> 2, customer_id |-> "c2", pair_name |-> "p2", sync_direction |-> "one_way",
        last_sync_status |-> NULL, flows_synced |-> 0] >>

\* the ts_conflicts rows: one unresolved conflict per customer in good standing (no
\* handler inserts conflicts); row i has id i
ts_conflicts ==
    << [id |-> 1, customer_id |-> "c1", sync_pair_id |-> 1, resolution |-> "unresolved",
        resolved_by |-> NULL],
       [id |-> 2, customer_id |-> "c2", sync_pair_id |-> 2, resolution |-> "unresolved",
        resolved_by |-> NULL] >>

\* the ts_version_ledger rows (no handler writes the ledger)
ts_version_ledger ==
    { [customer_id |-> "c1", sync_pair_id |-> 1, flow_name |-> "f1"],
      [customer_id |-> "c2", sync_pair_id |-> 2, flow_name |-> "f2"] }

PairIds == 1 .. Len(ts_sync_pairs)

VARIABLES
    customers,  \* ts_customers: set of rows
    pairs,      \* ts_sync_pairs: sequence of rows, row i has id i
    conflicts,  \* ts_conflicts: sequence of rows, row i has id i
    history,    \* sync_history: sequence of rows, row i has id i
    queue,      \* ts_sync_queue: sequence of rows, row i has id i
    chunks,     \* ts_package_chunks: bag of rows [queue_id, chunk_index, chunk_data]
    usage,      \* ts_usage_metrics for CURRENT_DATE: customer id -> counters
    audit,      \* ts_audit_log: bag of rows
    sent,       \* history: <<queue_id, chunk_index>> -> chunk_data of the last accepted upload-chunk
    replaced,   \* history: the key whose stored data an accepted upload-chunk last replaced
                \* by different data, NoKey before any
    inflight,   \* SpecConc: the upload-chunk requests between two of their statements
    pending,    \* SpecAcct: the register and create-pair requests between two of their
                \* statements
    users,      \* users (generate-flow-protected): user id -> row
    flows,      \* flows: bag of rows
    usage_logs, \* usage_logs: bag of rows
    month,      \* the monthly resets run so far
    gen,        \* SpecFlow: the generate-flow-protected requests between two of their
                \* statements
    waitlist,   \* ts_waitlist: email -> row
    now,        \* the time NOW() returns
    secretEnv,  \* process.env.WAITLIST_SECRET
    accepted,   \* history: per IP address, the times of the signups answered 200 with a
                \* database write
    authUsers,  \* users (auth handlers): set of rows
    authRes,    \* the last request the auth handlers answered, with its response
    subscriptions, \* subscriptions: stripe_subscription_id -> row
    hook        \* the last request the Stripe webhook answered, with its status code

\* the state of the handlers outside api/tenantsync.js
siteVars == <<users, flows, usage_logs, month, gen, waitlist, now, secretEnv, accepted,
              authUsers, authRes,
                 subscriptions, hook>>

vars == <<customers, pairs, conflicts, history, queue, chunks, usage, audit, sent, replaced,
          inflight, pending, siteVars>>

\* the account-side tables and the requests in flight on them
acctVars == <<customers, pairs, conflicts, history, pending>>

\* the tables as one value
DB == [customers |-> customers, pairs |-> pairs, conflicts |-> conflicts,
       history |-> history, queue |-> queue, chunks |-> chunks, usage |-> usage,
       audit |-> audit]


\* ------------------------------------------------------------------ SQL statements
RECURSIVE SetSum(_, _)
\* the sum of w[x] over x in S (COUNT and SUM aggregates)
SetSum(S, w) ==
    IF S = {} THEN 0
    ELSE LET x == CHOOSE y \in S : TRUE
         IN  w[x] + SetSum(S \ {x}, w)

\* the rows of ts_package_chunks with this queue_id
ChunkRows(c, qid) == { r \in BagToSet(c) : r.queue_id = qid }

\* SELECT COUNT(*) FROM ts_package_chunks WHERE queue_id = qid
SqlCountChunks(c, qid) ==
    LET R == ChunkRows(c, qid)
    IN  SetSum(R, [r \in R |-> CopiesIn(r, c)])

\* SELECT SUM(LENGTH(chunk_data)) ... WHERE queue_id = qid, with || 0 for no rows
SqlSumChunkLength(c, qid) ==
    LET R == ChunkRows(c, qid)
    IN  SetSum(R, [r \in R |-> CopiesIn(r, c) * Length(r.chunk_data)])

\* SqlUpsertChunk without its ON CONFLICT clause and the UNIQUE constraint: a plain INSERT
SqlUpsertChunk_PlainInsert(c, qid, idx, data) ==
    c (+) SetToBag({[queue_id |-> qid, chunk_index |-> idx, chunk_data |-> data]})

\* SqlUpsertChunk with ON CONFLICT DO NOTHING: the first write stays
SqlUpsertChunk_DoNothing(c, qid, idx, data) ==
    IF \E r \in BagToSet(c) : r.queue_id = qid /\ r.chunk_index = idx
    THEN c
    ELSE c (+) SetToBag({[queue_id |-> qid, chunk_index |-> idx, chunk_data |-> data]})

\* INSERT INTO ts_package_chunks ... ON CONFLICT (queue_id, chunk_index)
\* DO UPDATE SET chunk_data, under UNIQUE(queue_id, chunk_index)
SqlUpsertChunk(c, qid, idx, data) ==
    LET row == [queue_id |-> qid, chunk_index |-> idx, chunk_data |-> data]
        hit == { r \in BagToSet(c) : r.queue_id = qid /\ r.chunk_index = idx }
    IN  IF hit = {} THEN c (+) SetToBag({row})
        ELSE LET n    == SetSum(hit, [r \in hit |-> CopiesIn(r, c)])
                 rest == [r \in BagToSet(c) \ hit |-> c[r]]
             IN  rest (+) [r \in {row} |-> n]

\* SqlSelectChunk without the chunk_index condition
SqlSelectChunk_AnyIndex(c, qid, idx) ==
    { r \in BagToSet(c) : r.queue_id = qid }

\* SELECT chunk_data FROM ts_package_chunks WHERE queue_id = qid AND chunk_index = idx
SqlSelectChunk(c, qid, idx) ==
    { r \in BagToSet(c) : r.queue_id = qid /\ r.chunk_index = idx }

\* SqlSelectQueueOwned without the customer_id condition
SqlSelectQueueOwned_AnyOwner(qu, qid, cid) ==
    { i \in 1..Len(qu) : qu[i].id = qid }

\* SELECT ... FROM ts_sync_queue WHERE id = qid AND customer_id = cid
SqlSelectQueueOwned(qu, qid, cid) ==
    { i \in 1..Len(qu) : qu[i].id = qid /\ qu[i].customer_id = cid }

\* SELECT * FROM ts_sync_pairs WHERE id = pid AND customer_id = cid
SqlSelectPairOwned(prs, pid, cid) ==
    { i \in 1..Len(prs) : prs[i].id = pid /\ prs[i].customer_id = cid }

\* UPDATE ts_sync_queue SET total_chunks, status = 'processing' WHERE id = qid
SqlSetTotalChunks(qu, qid, total) ==
    IF qid \in 1..Len(qu)
    THEN [qu EXCEPT ![qid] = [@ EXCEPT !.total_chunks = total, !.status = "processing"]]
    ELSE qu

\* SqlSetChunksReceived counting the request instead of the rows
SqlSetChunksReceived_Increment(qu, qid, n) ==
    IF qid \in 1..Len(qu)
    THEN [qu EXCEPT ![qid] = [@ EXCEPT !.chunks_received = @ + 1]]
    ELSE qu

\* UPDATE ts_sync_queue SET chunks_received WHERE id = qid
SqlSetChunksReceived(qu, qid, n) ==
    IF qid \in 1..Len(qu)
    THEN [qu EXCEPT ![qid] = [@ EXCEPT !.chunks_received = n]]
    ELSE qu

\* SqlMarkCompleted completing only an entry that has chunks
SqlMarkCompleted_RequireChunks(qu, qid, totalChunks, totalSize) ==
    IF qid \in 1..Len(qu) /\ totalChunks > 0
    THEN [qu EXCEPT ![qid] = [@ EXCEPT !.status = "completed",
                                       !.total_chunks = totalChunks,
                                       !.chunks_received = totalChunks,
                                       !.package_size_bytes = totalSize]]
    ELSE qu

\* SqlMarkCompleted leaving the client-declared total_chunks in place
SqlMarkCompleted_KeepTotal(qu, qid, totalChunks, totalSize) ==
    IF qid \in 1..Len(qu)
    THEN [qu EXCEPT ![qid] = [@ EXCEPT !.status = "completed",
                                       !.chunks_received = totalChunks,
                                       !.package_size_bytes = totalSize]]
    ELSE qu

\* UPDATE ts_sync_queue SET status = 'completed', total_chunks, chunks_received,
\* package_size_bytes WHERE id = qid
SqlMarkCompleted(qu, qid, totalChunks, totalSize) ==
    IF qid \in 1..Len(qu)
    THEN [qu EXCEPT ![qid] = [@ EXCEPT !.status = "completed",
                                       !.total_chunks = totalChunks,
                                       !.chunks_received = totalChunks,
                                       !.package_size_bytes = totalSize]]
    ELSE qu

\* INSERT INTO ts_sync_queue ... RETURNING id; total_chunks and chunks_received
\* take their column default 0, created_at the insertion time
SqlInsertQueue(qu, cid, pid, manifest, status, packageData, packageSize) ==
    Append(qu, [id |-> Len(qu) + 1,
                customer_id |-> cid,
                sync_pair_id |-> pid,
                direction |-> "inbound",
                manifest |-> manifest,
                status |-> status,
                package_data |-> packageData,
                package_size_bytes |-> packageSize,
                total_chunks |-> 0,
                chunks_received |-> 0,
                created_at |-> Len(qu) + 1])

\* a ts_usage_metrics row with every counter at 0 (what handleStatus reads for a
\* counter never written: || 0)
NoUsage == [syncs_initiated |-> 0, syncs_completed |-> 0, syncs_failed |-> 0,
            flows_synced |-> 0, conflicts_resolved |-> 0]

\* INSERT INTO ts_usage_metrics (customer_id, date, syncs_initiated) VALUES (cid, today, 1)
\* ON CONFLICT (customer_id, date) DO UPDATE SET syncs_initiated = syncs_initiated + 1
SqlBumpSyncsInitiated(u, cid) ==
    IF cid \in DOMAIN u
    THEN [u EXCEPT ![cid] = [@ EXCEPT !.syncs_initiated = @ + 1]]
    ELSE [c \in DOMAIN u \cup {cid} |->
            IF c = cid THEN [NoUsage EXCEPT !.syncs_initiated = 1] ELSE u[c]]

\* logAudit: INSERT INTO ts_audit_log
logAudit(a, customerId, syncPairId, action, details) ==
    a (+) SetToBag({[customer_id |-> customerId, sync_pair_id |-> syncPairId,
                     action |-> action, details |-> details]})

\* rows in a table kept as a bag
Rows(t) ==
    LET R == BagToSet(t) IN SetSum(R, [r \in R |-> CopiesIn(r, t)])


\* ------------------------------------------------------------------ handlers
\* Reply writing an audit row for every refused request
Reply_Audited(db, res) ==
    [db  |-> IF res.code >= 400
             THEN [db EXCEPT !.audit = logAudit(@, NULL, NoId, "request_refused",
                                                [code |-> res.code])]
             ELSE db,
     res |-> res]

\* a handler's result: the tables after it and the response
Reply(db, res) == [db |-> db, res |-> res]

\* res.status(code).json({ error })
Err(code, msg) == [code |-> code, error |-> msg]

\* UploadStatus storing every entry as pending
UploadStatus_AlwaysPending(hasPackage) == "pending"

\* the status handleUpload inserts: package_base64 ? 'completed' : 'pending'
UploadStatus(hasPackage) == IF hasPackage THEN "completed" ELSE "pending"

\* handleUpload
handleUpload(db, customer, req) ==
    IF req.method # "POST" THEN Reply(db, Err(405, "POST required"))
    ELSE IF req.sync_pair_id = NoId \/ req.manifest = NULL
    THEN Reply(db, Err(400, "sync_pair_id and manifest required"))
    ELSE IF SqlSelectPairOwned(db.pairs, req.sync_pair_id, customer) = {}
    THEN Reply(db, Err(404, "Sync pair not found"))
    ELSE
    LET hasPackage  == Truthy(req.package_base64)
        packageSize == IF hasPackage THEN Length(req.package_base64) ELSE 0
        status      == UploadStatus(hasPackage)
        q1 == SqlInsertQueue(db.queue, customer, req.sync_pair_id, req.manifest, status,
                             IF hasPackage THEN req.package_base64 ELSE NULL,
                             packageSize)
        id == q1[Len(q1)].id
        u1 == SqlBumpSyncsInitiated(db.usage, customer)
        a1 == logAudit(db.audit, customer, req.sync_pair_id, "sync_upload_received",
                       [queue_id |-> id, has_package |-> hasPackage,
                        package_size |-> packageSize, flows |-> 0])
    IN  Reply([db EXCEPT !.queue = q1, !.usage = u1, !.audit = a1],
              [code |-> 202, queue_id |-> id, status |-> status,
               has_package |-> hasPackage])

\* the early exits of handleUploadChunk: the error it answers, code 0 for none
ChunkRefusal(qu, customer, req) ==
    IF req.method # "POST" THEN Err(405, "POST required")
    ELSE IF req.queue_id = NoId \/ req.chunk_index = UNDEF \/ ~Truthy(req.chunk_data)
    THEN Err(400, "queue_id, chunk_index, chunk_data required")
    ELSE IF SqlSelectQueueOwned(qu, req.queue_id, customer) = {}
    THEN Err(404, "Queue entry not found")
    ELSE Err(0, "")

\* DeclaresTotal without the chunk_index === 0 test
DeclaresTotal_AnyIndex(req) == req.total_chunks # 0

\* whether handleUploadChunk writes total_chunks: total_chunks && chunk_index === 0
DeclaresTotal(req) == req.total_chunks # 0 /\ req.chunk_index = 0

\* handleUploadChunk; in the response total_chunks 0 stands for null
handleUploadChunk(db, customer, req) ==
    IF ChunkRefusal(db.queue, customer, req).code # 0
    THEN Reply(db, ChunkRefusal(db.queue, customer, req))
    ELSE
    LET q1 == IF DeclaresTotal(req)
              THEN SqlSetTotalChunks(db.queue, req.queue_id, req.total_chunks)
              ELSE db.queue
        c1 == SqlUpsertChunk(db.chunks, req.queue_id, req.chunk_index, req.chunk_data)
        chunkCount == SqlCountChunks(c1, req.queue_id)
        q2 == SqlSetChunksReceived(q1, req.queue_id, chunkCount)
    IN  Reply([db EXCEPT !.queue = q2, !.chunks = c1],
              [code |-> 200, chunk_index |-> req.chunk_index,
               chunks_received |-> chunkCount, total_chunks |-> req.total_chunks])

\* handleUploadComplete
handleUploadComplete(db, customer, req) ==
    IF req.method # "POST" THEN Reply(db, Err(405, "POST required"))
    ELSE IF req.queue_id = NoId THEN Reply(db, Err(400, "queue_id required"))
    ELSE IF SqlSelectQueueOwned(db.queue, req.queue_id, customer) = {}
    THEN Reply(db, Err(404, "Queue entry not found"))
    ELSE
    LET row         == db.queue[CHOOSE i \in SqlSelectQueueOwned(db.queue, req.queue_id, customer) : TRUE]
        totalChunks == SqlCountChunks(db.chunks, req.queue_id)
        totalSize   == SqlSumChunkLength(db.chunks, req.queue_id)
        q1 == SqlMarkCompleted(db.queue, req.queue_id, totalChunks, totalSize)
        a1 == logAudit(db.audit, customer, row.sync_pair_id, "chunked_upload_completed",
                       [queue_id |-> req.queue_id, total_chunks |-> totalChunks,
                        total_size |-> totalSize])
    IN  Reply([db EXCEPT !.queue = q1, !.audit = a1],
              [code |-> 200, queue_id |-> req.queue_id, total_chunks |-> totalChunks,
               total_size_bytes |-> totalSize, status |-> "completed"])

\* SqlSelectLatestCompleted with ORDER BY created_at ASC
SqlSelectLatestCompleted_Oldest(qu, cid, pid) ==
    LET ready == { i \in 1..Len(qu) : /\ qu[i].customer_id = cid
                                      /\ qu[i].sync_pair_id = pid
                                      /\ qu[i].direction = "inbound"
                                      /\ qu[i].status = "completed" }
    IN  { i \in ready : \A j \in ready : qu[i].created_at <= qu[j].created_at }

\* SELECT ... FROM ts_sync_queue WHERE customer_id AND sync_pair_id AND
\* direction = 'inbound' AND status = 'completed' ORDER BY created_at DESC LIMIT 1
SqlSelectLatestCompleted(qu, cid, pid) ==
    LET ready == { i \in 1..Len(qu) : /\ qu[i].customer_id = cid
                                      /\ qu[i].sync_pair_id = pid
                                      /\ qu[i].direction = "inbound"
                                      /\ qu[i].status = "completed" }
    IN  { i \in ready : \A j \in ready : qu[j].created_at <= qu[i].created_at }

\* TransferMode testing the chunk count before, and without, the inline data
TransferMode_ChunkedFirst(pkg) ==
    IF pkg.total_chunks > 0 THEN "chunked"
    ELSE IF Truthy(pkg.package_data) THEN "inline"
    ELSE "manifest_only"

\* the branch handleDownload takes for the selected row
TransferMode(pkg) ==
    LET isChunked == pkg.total_chunks > 0 /\ ~Truthy(pkg.package_data)
    IN  IF Truthy(pkg.package_data) THEN "inline"
        ELSE IF isChunked THEN "chunked"
        ELSE "manifest_only"

\* handleDownload (any method)
handleDownload(db, customer, req) ==
    IF req.sync_pair_id = NoId THEN Reply(db, Err(400, "sync_pair_id required"))
    ELSE
    LET packages == SqlSelectLatestCompleted(db.queue, customer, req.sync_pair_id)
    IN  IF packages = {} THEN Reply(db, [code |-> 200, available |-> FALSE])
        ELSE
        LET pkg  == db.queue[CHOOSE i \in packages : TRUE]
            mode == TransferMode(pkg)
        IN  CASE mode = "inline" ->
                 Reply(db, [code |-> 200, available |-> TRUE, transfer_mode |-> "inline",
                            queue_id |-> pkg.id, manifest |-> pkg.manifest,
                            package_base64 |-> pkg.package_data,
                            size_bytes |-> pkg.package_size_bytes,
                            created_at |-> pkg.created_at])
              [] mode = "chunked" ->
                 Reply(db, [code |-> 200, available |-> TRUE, transfer_mode |-> "chunked",
                            queue_id |-> pkg.id, manifest |-> pkg.manifest,
                            total_chunks |-> pkg.total_chunks,
                            size_bytes |-> pkg.package_size_bytes,
                            created_at |-> pkg.created_at])
              [] OTHER ->
                 Reply(db, [code |-> 200, available |-> TRUE,
                            transfer_mode |-> "manifest_only",
                            queue_id |-> pkg.id, manifest |-> pkg.manifest,
                            created_at |-> pkg.created_at])

\* handleDownloadChunk (any method)
handleDownloadChunk(db, customer, req) ==
    IF req.queue_id = NoId \/ req.chunk_index = UNDEF
    THEN Reply(db, Err(400, "queue_id and chunk_index required"))
    ELSE IF SqlSelectQueueOwned(db.queue, req.queue_id, customer) = {}
    THEN Reply(db, Err(404, "Queue entry not found"))
    ELSE
    LET chunk == SqlSelectChunk(db.chunks, req.queue_id, req.chunk_index)
    IN  IF chunk = {} THEN Reply(db, Err(404, "Chunk not found"))
        ELSE Reply(db, [code |-> 200, queue_id |-> req.queue_id,
                        chunk_index |-> req.chunk_index,
                        chunk_data |-> (CHOOSE r \in chunk : TRUE).chunk_data])


\* ------------------------------------------------------------------ account handlers
\* the ids ts_customers rows get, in insertion order (uuid default of the id column)
CustomerIds == <<"c1", "c2", "c3", "c4", "c5">>

\* generateApiKey: the key made of the random bytes drawn while the request is served
generateApiKey(req) == req.random

\* SELECT id FROM ts_customers WHERE contact_email = email
SqlSelectCustomerByEmail(cust, email) == { c \in cust : c.contact_email = email }

\* the row INSERT INTO ts_customers ... 'starter', 'trial' adds
NewCustomer(cust, company, email, apiKeyHash) ==
    [id |-> CustomerIds[Cardinality(cust) + 1], company_name |-> company,
     contact_email |-> email, api_key_hash |-> apiKeyHash,
     subscription_tier |-> "starter", subscription_status |-> "trial",
     max_sync_pairs |-> StarterMaxSyncPairs, bidirectional_enabled |-> FALSE]

\* INSERT INTO ts_customers (...) VALUES (...)
SqlInsertCustomer(cust, company, email, apiKeyHash) ==
    cust \cup {NewCustomer(cust, company, email, apiKeyHash)}

\* the early exits of handleRegister: the error it answers, code 0 for none
RegisterRefusal(cust, req) ==
    IF req.method # "POST" THEN Err(405, "POST required")
    ELSE IF ~Truthy(req.company_name) \/ ~Truthy(req.contact_email)
    THEN Err(400, "company_name and contact_email required")
    ELSE IF SqlSelectCustomerByEmail(cust, req.contact_email) # {}
    THEN Err(409, "Email already registered")
    ELSE Err(0, "")

\* handleRegister from the INSERT on
RegisterInsert(db, req) ==
    LET apiKey == generateApiKey(req)
        row    == NewCustomer(db.customers, req.company_name, req.contact_email,
                              hashApiKey(apiKey))
        c1     == SqlInsertCustomer(db.customers, req.company_name, req.contact_email,
                                    hashApiKey(apiKey))
        a1     == logAudit(db.audit, row.id, NoId, "customer_registered",
                           [company |-> req.company_name, tier |-> "starter"])
    IN  Reply([db EXCEPT !.customers = c1, !.audit = a1],
              [code |-> 201, success |-> TRUE,
               customer |-> [id |-> row.id, company_name |-> row.company_name,
                             subscription_tier |-> row.subscription_tier,
                             max_sync_pairs |-> row.max_sync_pairs],
               api_key |-> apiKey])

\* handleRegister
handleRegister(db, req) ==
    IF RegisterRefusal(db.customers, req).code # 0
    THEN Reply(db, RegisterRefusal(db.customers, req))
    ELSE RegisterInsert(db, req)

\* handleSetupChunksTable: CREATE TABLE / INDEX IF NOT EXISTS, ADD COLUMN IF NOT EXISTS
handleSetupChunksTable(db, req) ==
    IF req.method # "POST" THEN Reply(db, Err(405, "POST required"))
    ELSE Reply(db, [code |-> 200, success |-> TRUE])

\* SELECT COUNT(*) FROM ts_sync_pairs WHERE customer_id = cid
SqlCountPairs(prs, cid) == Cardinality({ i \in 1..Len(prs) : prs[i].customer_id = cid })

\* the unresolved ts_conflicts rows of a customer
SqlSelectUnresolved(cf, cid) ==
    { i \in 1..Len(cf) : cf[i].customer_id = cid /\ cf[i].resolution = "unresolved" }

\* the customer's ts_usage_metrics row of today, NoUsage for none
UsageToday(u, cid) == IF cid \in DOMAIN u THEN u[cid] ELSE NoUsage

\* handleStatus (any method)
handleStatus(db, customer) ==
    Reply(db, [code |-> 200,
               customer |-> [id |-> customer.id, company_name |-> customer.company_name,
                             tier |-> customer.subscription_tier,
                             status |-> customer.subscription_status],
               limits |-> [max_sync_pairs |-> customer.max_sync_pairs,
                           bidirectional_enabled |-> customer.bidirectional_enabled],
               usage |-> [sync_pairs |-> SqlCountPairs(db.pairs, customer.id),
                          syncs_today |-> UsageToday(db.usage, customer.id).syncs_initiated,
                          flows_synced_today |-> UsageToday(db.usage, customer.id).flows_synced,
                          conflicts_pending |->
                              Cardinality(SqlSelectUnresolved(db.conflicts, customer.id))]])

\* handlePairs (any method): the ids of the customer's pairs
handlePairs(db, customer) ==
    Reply(db, [code |-> 200,
               pairs |-> { i \in 1..Len(db.pairs) : db.pairs[i].customer_id = customer.id }])

\* the early exits of handleCreatePair: the error it answers, code 0 for none
CreatePairRefusal(prs, customer, req) ==
    IF req.method # "POST" THEN Err(405, "POST required")
    ELSE IF ~Truthy(req.pair_name) \/ ~Truthy(req.source_tenant_id)
            \/ ~Truthy(req.target_tenant_id)
    THEN Err(400, "pair_name, source_tenant_id, target_tenant_id required")
    ELSE IF SqlCountPairs(prs, customer.id) >= customer.max_sync_pairs
    THEN Err(403, "Sync pair limit reached")
    ELSE IF req.sync_direction = "bidirectional" /\ ~customer.bidirectional_enabled
    THEN Err(403, "Bidirectional sync requires Enterprise tier")
    ELSE Err(0, "")

\* INSERT INTO ts_sync_pairs (...) VALUES (...) RETURNING *
SqlInsertPair(prs, cid, req) ==
    Append(prs, [id |-> Len(prs) + 1, customer_id |-> cid, pair_name |-> req.pair_name,
                 sync_direction |-> IF Truthy(req.sync_direction) THEN req.sync_direction
                                    ELSE "one_way",
                 last_sync_status |-> NULL, flows_synced |-> 0])

\* handleCreatePair from the INSERT on
CreatePairInsert(db, customer, req) ==
    LET p1  == SqlInsertPair(db.pairs, customer.id, req)
        row == p1[Len(p1)]
        a1  == logAudit(db.audit, customer.id, row.id, "sync_pair_created",
                        [pair_name |-> req.pair_name])
    IN  Reply([db EXCEPT !.pairs = p1, !.audit = a1],
              [code |-> 201, success |-> TRUE, pair |-> row])

\* handleCreatePair
handleCreatePair(db, customer, req) ==
    IF CreatePairRefusal(db.pairs, customer, req).code # 0
    THEN Reply(db, CreatePairRefusal(db.pairs, customer, req))
    ELSE CreatePairInsert(db, customer, req)

\* handleConflicts (any method): the ids of the customer's unresolved conflicts whose
\* sync pair exists (JOIN ts_sync_pairs)
handleConflicts(db, customer) ==
    Reply(db, [code |-> 200,
               conflicts |-> { i \in SqlSelectUnresolved(db.conflicts, customer.id) :
                                 db.conflicts[i].sync_pair_id \in 1..Len(db.pairs) }])

\* the resolutions handleResolve accepts
Resolutions == {"keep_a", "keep_b", "merge", "skip"}

\* the rows UPDATE ts_conflicts ... WHERE id = cfid AND customer_id = cid matches
SqlSelectConflictOwned(cf, cfid, cid) ==
    { i \in 1..Len(cf) : cf[i].id = cfid /\ cf[i].customer_id = cid }

\* UPDATE ts_conflicts SET resolution, resolved_by WHERE id = cfid AND customer_id = cid
SqlResolveConflict(cf, cfid, cid, resolution, by) ==
    [i \in 1..Len(cf) |->
        IF i \in SqlSelectConflictOwned(cf, cfid, cid)
        THEN [cf[i] EXCEPT !.resolution = resolution, !.resolved_by = by]
        ELSE cf[i]]

\* INSERT INTO ts_usage_metrics ... ON CONFLICT DO UPDATE SET field = field + n
SqlBumpUsage(u, cid, field, n) ==
    IF cid \in DOMAIN u
    THEN [u EXCEPT ![cid] = [@ EXCEPT ![field] = @ + n]]
    ELSE [c \in DOMAIN u \cup {cid} |->
            IF c = cid THEN [NoUsage EXCEPT ![field] = n] ELSE u[c]]

\* handleResolve
handleResolve(db, customer, req) ==
    IF req.method # "POST" THEN Reply(db, Err(405, "POST required"))
    ELSE IF req.conflict_id = NoId \/ ~Truthy(req.resolution)
    THEN Reply(db, Err(400, "conflict_id and resolution required"))
    ELSE IF req.resolution \notin Resolutions THEN Reply(db, Err(400, "Invalid resolution"))
    ELSE IF SqlSelectConflictOwned(db.conflicts, req.conflict_id, customer.id) = {}
    THEN Reply(db, Err(404, "Conflict not found"))
    ELSE
    LET cf1 == SqlResolveConflict(db.conflicts, req.conflict_id, customer.id,
                                  req.resolution, customer.company_name)
        row == cf1[req.conflict_id]
        a1  == logAudit(db.audit, customer.id, row.sync_pair_id, "conflict_resolved",
                        [conflict_id |-> req.conflict_id, resolution |-> req.resolution])
        u1  == SqlBumpUsage(db.usage, customer.id, "conflicts_resolved", 1)
    IN  Reply([db EXCEPT !.conflicts = cf1, !.audit = a1, !.usage = u1],
              [code |-> 200, success |-> TRUE, conflict |-> row])

\* handleLedger (any method)
handleLedger(db, customer, req) ==
    IF req.sync_pair_id = NoId THEN Reply(db, Err(400, "sync_pair_id required"))
    ELSE Reply(db, [code |-> 200, sync_pair_id |-> req.sync_pair_id,
                    flows |-> { l \in ts_version_ledger :
                                  l.customer_id = customer.id
                                  /\ l.sync_pair_id = req.sync_pair_id }])

\* UPDATE ts_sync_pairs SET last_sync_status, flows_synced = COALESCE(flows_synced, 0) + n
\* WHERE id = pid AND customer_id = cid
SqlRecordPairSync(prs, pid, cid, status, n) ==
    [i \in 1..Len(prs) |->
        IF i \in SqlSelectPairOwned(prs, pid, cid)
        THEN [prs[i] EXCEPT !.last_sync_status = status, !.flows_synced = @ + n]
        ELSE prs[i]]

\* handleSyncComplete; flows_activated and flows_processed absent are 0 (|| 0)
handleSyncComplete(db, customer, req) ==
    IF req.method # "POST" THEN Reply(db, Err(405, "POST required"))
    ELSE IF ~Truthy(req.status)
    THEN Reply(db, Err(400, "status required (success or failed)"))
    ELSE
    LET h1 == Append(db.history, [id |-> Len(db.history) + 1,
                                  sync_pair_id |-> req.sync_pair_id,
                                  flows_processed |-> req.flows_processed,
                                  status |-> req.status])
        p1 == IF req.sync_pair_id # NoId
              THEN SqlRecordPairSync(db.pairs, req.sync_pair_id, customer.id, req.status,
                                     req.flows_activated)
              ELSE db.pairs
        u1 == IF req.status = "success"
              THEN SqlBumpUsage(SqlBumpUsage(db.usage, customer.id, "syncs_completed", 1),
                                customer.id, "flows_synced", req.flows_activated)
              ELSE SqlBumpUsage(db.usage, customer.id, "syncs_failed", 1)
        a1 == logAudit(db.audit, customer.id, req.sync_pair_id, "sync_completed",
                       [status |-> req.status, flows_processed |-> req.flows_processed,
                        flows_activated |-> req.flows_activated])
    IN  Reply([db EXCEPT !.history = h1, !.pairs = p1, !.usage = u1, !.audit = a1],
              [code |-> 200, success |-> TRUE, history_id |-> Len(h1)])


\* the package actions of the switch
Actions == {"upload", "upload-chunk", "upload-complete", "download", "download-chunk"}

\* the account actions of the switch
AccountActions ==
    {"status", "pairs", "create-pair", "conflicts", "resolve", "ledger", "sync-complete"}

\* handler: the routes without auth, the API key check, then the switch on action
handler(db, action, apiKey, req) ==
    IF action = "register" THEN handleRegister(db, req)
    ELSE IF action = "setup-chunks-table" THEN handleSetupChunksTable(db, req)
    ELSE IF ~Truthy(apiKey) THEN Reply(db, Err(401, "API key required"))
    ELSE IF validateApiKey(db.customers, apiKey) = {}
    THEN Reply(db, Err(401, "Invalid API key"))
    ELSE
    LET row      == CHOOSE c \in validateApiKey(db.customers, apiKey) : TRUE
        customer == row.id
    IN  CASE action = "status"          -> handleStatus(db, row)
          [] action = "pairs"           -> handlePairs(db, row)
          [] action = "create-pair"     -> handleCreatePair(db, row, req)
          [] action = "conflicts"       -> handleConflicts(db, row)
          [] action = "resolve"         -> handleResolve(db, row, req)
          [] action = "ledger"          -> handleLedger(db, row, req)
          [] action = "sync-complete"   -> handleSyncComplete(db, row, req)
          [] action = "upload"          -> handleUpload(db, customer, req)
          [] action = "upload-chunk"    -> handleUploadChunk(db, customer, req)
          [] action = "upload-complete" -> handleUploadComplete(db, customer, req)
          [] action = "download"        -> handleDownload(db, customer, req)
          [] action = "download-chunk"  -> handleDownloadChunk(db, customer, req)
          [] OTHER                      -> Reply(db, Err(400, "Unknown action"))

\* ------------------------------------------------------------------ state machine
\* the keys of sent
ChunkKeys == (1..MaxQueue) \X (0..MaxIndex)

\* replaced before any replacement
NoKey == <<NoId, 0>>

\* the body of a request the router answers without reading it
NoReq == [method |-> "GET"]

\* a 2xx response
Ok(res) == res.code \in {200, 202}

\* the customer id an API key authenticates, NULL for none
Caller(apiKey) ==
    IF Truthy(apiKey) /\ validateApiKey(customers, apiKey) # {}
    THEN (CHOOSE c \in validateApiKey(customers, apiKey) : TRUE).id
    ELSE NULL

\* the slots of inflight
Procs == 1..MaxInflight

\* a slot holding no request
Idle == [pc |-> "idle", req |-> NoReq, chunkCount |-> 0]

\* ------------------------------------------------------------------ generate-flow-protected
\* rows generate-flow-protected may add to flows
MaxFlows == 3

\* the monthly resets modelled
MaxMonths == 1

\* limits[user.subscription_tier] || 3
FlowLimit(tier) ==
    CASE tier = "free"       -> 3
      [] tier = "pro"        -> 50
      [] tier = "enterprise" -> 999999
      [] OTHER               -> 3

\* the users rows present: a free user and a user whose subscription_tier is none of
\* the handler's three, each one flow below its limit, and a pro user two flows below
seededUsers ==
    [u \in {"u1", "u2", "u3"} |->
        CASE u = "u1" -> [subscription_tier |-> "free",
                          flows_generated_this_month |-> FlowLimit("free") - 1,
                          total_flows_generated |-> FlowLimit("free") - 1]
          [] u = "u2" -> [subscription_tier |-> "pro",
                          flows_generated_this_month |-> FlowLimit("pro") - 2,
                          total_flows_generated |-> FlowLimit("pro") - 2]
          [] u = "u3" -> [subscription_tier |-> "starter",
                          flows_generated_this_month |-> FlowLimit("starter") - 1,
                          total_flows_generated |-> FlowLimit("starter") - 1]]

\* the flows rows of the users present: one for each flow generated
seededFlows ==
    [r \in { [user_id |-> u] : u \in DOMAIN seededUsers } |->
        seededUsers[r.user_id].total_flows_generated]

\* the usage_logs rows of the users present: one for each flow generated
seededLogs ==
    [r \in { [user_id |-> u, action_type |-> "flow_generated"] : u \in DOMAIN seededUsers } |->
        seededUsers[r.user_id].total_flows_generated]

\* prompt.trim()
Trim(prompt) == IF prompt = " " THEN "" ELSE prompt

\* the early exits of the handler up to the usage check: the error it answers, code 0
\* for none
FlowRefusal(us, req) ==
    IF req.method # "POST" THEN Err(405, "Method not allowed")
    ELSE IF ~Truthy(req.prompt) \/ Len(Trim(req.prompt)) = 0 THEN Err(400, "Prompt is required")
    ELSE IF ~Truthy(req.userId) THEN Err(401, "User ID required")
    ELSE IF req.userId \notin DOMAIN us THEN Err(404, "User not found")
    ELSE IF FlowLimit(us[req.userId].subscription_tier)
              - us[req.userId].flows_generated_this_month <= 0
    THEN Err(429, "Usage limit exceeded")
    ELSE Err(0, "")

\* what the call of the generation API and the parsing of its answer come to
Outcomes == {"no_api_key", "api_error", "no_text", "bad_json", "ok"}

\* UPDATE users SET flows_generated_this_month + 1, total_flows_generated + 1 WHERE id
SqlCountFlow(us, userId) ==
    IF userId \in DOMAIN us
    THEN [us EXCEPT ![userId] = [@ EXCEPT !.flows_generated_this_month = @ + 1,
                                          !.total_flows_generated = @ + 1]]
    ELSE us

\* reset_monthly_flows(): UPDATE users SET flows_generated_this_month = 0
reset_monthly_flows(us) ==
    [u \in DOMAIN us |-> [us[u] EXCEPT !.flows_generated_this_month = 0]]

\* request bodies of generate-flow-protected
FlowReqs ==
    { [method |-> "POST", prompt |-> "p", userId |-> u] : u \in {"u1", "u2", "u3", "ux", NULL} }
    \cup { [method |-> "GET", prompt |-> "p", userId |-> "u1"],
           [method |-> "POST", prompt |-> NULL, userId |-> "u1"],
           [method |-> "POST", prompt |-> " ", userId |-> "u1"] }

\* ------------------------------------------------------------------ waitlist
\* signups the rate check lets through per IP address and hour
RateLimit == 5

\* INTERVAL '1 hour', in ticks of the clock
Hour == 2

\* the clock runs from 0 to MaxTime
MaxTime == 2

\* signups answered 200 with a database write, all addresses together
MaxSignups == 6

\* the addresses signups come from: the first entry of x-forwarded-for, x-real-ip, or
\* 'unknown' when neither header names one
Ips == {"ip1", "unknown"}

\* the ip the handler attributes a request to
ClientIp(req) ==
    IF Len(req.x_forwarded_for) > 0 /\ Truthy(req.x_forwarded_for[1])
    THEN req.x_forwarded_for[1]
    ELSE IF Truthy(req.x_real_ip) THEN req.x_real_ip
    ELSE "unknown"

\* email values that match /^[^\s@]+@[^\s@]+\.[^\s@]+$/
WellFormed ==
    {"a@x.io", "A@x.io", "b@x.io", "B@x.io", "c@x.io", "d@x.io", "e@x.io", "long@x.io",
     "m@yopmail.com", "m@YOPMAIL.COM"}

\* email.length; "long@x.io" stands for a well-formed address of 255 characters
EmailLength(email) == IF email = "long@x.io" THEN 255 ELSE Len(email)

\* String.prototype.toLowerCase on the modelled addresses and domains
toLowerCase(str) ==
    CASE str = "A@x.io"        -> "a@x.io"
      [] str = "m@YOPMAIL.COM" -> "m@yopmail.com"
      [] str = "YOPMAIL.COM"   -> "yopmail.com"
      [] str = "B@x.io"        -> "b@x.io"
      [] OTHER                 -> str

\* email.split('@')[1]
DomainOf(email) ==
    CASE email = "m@yopmail.com" -> "yopmail.com"
      [] email = "m@YOPMAIL.COM" -> "YOPMAIL.COM"
      [] OTHER                   -> "x.io"

\* the disposable domains blocked, among those modelled
disposable == {"mailinator.com", "yopmail.com", "trashmail.com"}

\* SELECT COUNT(*) FROM ts_waitlist WHERE ip_address = ip AND created_at > NOW() - 1 hour
SqlCountRecent(wl, ip, t) ==
    Cardinality({ e \in DOMAIN wl : wl[e].ip_address = ip /\ wl[e].created_at > t - Hour })

\* INSERT INTO ts_waitlist ... ON CONFLICT (email) DO UPDATE SET updated_at = NOW(),
\* signup_count = signup_count + 1
SqlUpsertSignup(wl, email, source, ip, t) ==
    IF email \in DOMAIN wl
    THEN [wl EXCEPT ![email] = [@ EXCEPT !.updated_at = t, !.signup_count = @ + 1]]
    ELSE [e \in DOMAIN wl \cup {email} |->
            IF e = email
            THEN [source |-> source, ip_address |-> ip, created_at |-> t, updated_at |-> t,
                  signup_count |-> 1]
            ELSE wl[e]]

\* !(secret !== process.env.WAITLIST_SECRET); NULL stands for undefined on both sides
SecretMatches(secret, env) == secret = env

\* the POST branch of the waitlist handler at time t
waitlistSignup(wl, t, req) ==
    IF Truthy(req.website)
    THEN Reply(wl, [code |-> 200, success |-> TRUE, wrote |-> FALSE])
    ELSE IF ~Truthy(req.email) THEN Reply(wl, Err(400, "Valid email required"))
    ELSE IF EmailLength(req.email) > 254 THEN Reply(wl, Err(400, "Valid email required"))
    ELSE IF req.email \notin WellFormed THEN Reply(wl, Err(400, "Valid email required"))
    ELSE IF toLowerCase(DomainOf(req.email)) \in disposable
    THEN Reply(wl, Err(400, "Please use a work or personal email"))
    ELSE IF SqlCountRecent(wl, ClientIp(req), t) >= RateLimit
    THEN Reply(wl, Err(429, "Too many requests. Try again later."))
    ELSE
    LET normalizedEmail == toLowerCase(req.email)
        wl1 == SqlUpsertSignup(wl, normalizedEmail,
                               IF Truthy(req.source) THEN req.source ELSE "landing-page",
                               ClientIp(req), t)
    IN  Reply(wl1, [code |-> 200, success |-> TRUE, wrote |-> TRUE,
                    signup |-> [email |-> normalizedEmail,
                                created_at |-> wl1[normalizedEmail].created_at]])

\* the GET branch of the waitlist handler
waitlistList(wl, env, req) ==
    IF ~SecretMatches(req.secret, env) THEN Reply(wl, Err(401, "Unauthorized"))
    ELSE Reply(wl, [code |-> 200, stats |-> [total |-> Cardinality(DOMAIN wl)],
                    signups |-> DOMAIN wl])

\* the waitlist handler
waitlistHandler(wl, env, t, req) ==
    CASE req.method = "OPTIONS" -> Reply(wl, [code |-> 200])
      [] req.method = "POST"    -> waitlistSignup(wl, t, req)
      [] req.method = "GET"     -> waitlistList(wl, env, req)
      [] OTHER                  -> Reply(wl, Err(405, "Method not allowed"))

\* request bodies and headers of a signup
SignupReqs ==
    { [method |-> "POST", email |-> email, website |-> NULL, source |-> NULL,
       x_forwarded_for |-> <<"ip1", "proxy">>, x_real_ip |-> NULL] :
        email \in {"a@x.io", "A@x.io", "b@x.io", "c@x.io", "d@x.io", "e@x.io"} }
    \cup { [method |-> "POST", email |-> "a@x.io", website |-> NULL, source |-> NULL,
            x_forwarded_for |-> << >>, x_real_ip |-> ip] : ip \in {NULL, "ip1"} }
    \cup { [method |-> "POST", email |-> email, website |-> NULL, source |-> "ad",
            x_forwarded_for |-> << >>, x_real_ip |-> "ip1"] :
             email \in {NULL, "", "nope", "long@x.io", "m@yopmail.com", "m@YOPMAIL.COM"} }
    \cup { [method |-> "POST", email |-> "b@x.io", website |-> "http://spam", source |-> NULL,
            x_forwarded_for |-> <<"ip1">>, x_real_ip |-> NULL] }

\* the secret query parameter values of a GET; NULL for none
Secrets == {NULL, "s3cret", "wrong"}

\* ------------------------------------------------------------------ sign-in and signup
\* a body field that holds a JSON number instead of a string
NonString == "<number>"

\* password.length < 8 fails for the passwords signup accepts
MinPassword == 8

\* crypto.randomBytes(16).toString('hex') values
Salts == {"5a17", "9c02"}

\* crypto.randomUUID() values
Uuids == {"uuid-1", "uuid-2"}

\* crypto.pbkdf2Sync(password, salt, 10000, 64, 'sha512').toString('hex'): a value that
\* depends on the password and on the salt, and on nothing else
pbkdf2Sync(password, salt) == <<"pbkdf2", password, salt>>

\* `${salt}:${hash}`, held as the parts storedHash.split(':') gives back (a hex salt
\* and a hex hash contain no ':')
hashPassword(password, salt) == <<salt, pbkdf2Sync(password, salt)>>

\* verifyPassword comparing nothing
verifyPassword_Always(password, storedHash) == Len(storedHash) > 0

\* const [salt, hash] = storedHash.split(':'); hash === testHash
verifyPassword(password, storedHash) ==
    /\ Len(storedHash) > 1
    /\ storedHash[2] = pbkdf2Sync(password, storedHash[1])

\* new SignJWT({ userId, email }) signed: the claims the cookie carries
createToken(userId, email) == [userId |-> userId, email |-> email]

\* SELECT id, email, password_hash, name, tier FROM users WHERE email = ...
SqlSelectUserByEmail(us, email) == { u \in us : u.email = email }

\* a response of an auth handler: the table after it, the JSON answer, and the
\* auth_token values of its Set-Cookie header
AuthReply(us, res, cookie) == [users |-> us, res |-> res, cookie |-> cookie]

\* no request answered yet
NoAuthRes == [req |-> [method |-> NULL], res |-> [code |-> 0], cookie |-> {}]

\* an exception thrown inside the handler: caught and answered 500 by the handlers with
\* a try block, answered 500 by the platform for the one without; the Set-Cookie
\* statement was not reached
Thrown(us, caught) ==
    IF caught THEN AuthReply(us, Err(500, "Internal server error"), {})
    ELSE AuthReply(us, Err(500, "FUNCTION_INVOCATION_FAILED"), {})

\* the body the three sign-in handlers share: validation, lookup by lower-cased email,
\* password verification, token and cookie
signin(us, req, caught) ==
    IF ~Truthy(req.email) \/ ~Truthy(req.password)
    THEN AuthReply(us, Err(400, "Email and password required"), {})
    ELSE IF req.email = NonString THEN Thrown(us, caught)
    ELSE
    LET rows == SqlSelectUserByEmail(us, toLowerCase(req.email))
    IN  IF rows = {} THEN AuthReply(us, Err(401, "Invalid email or password"), {})
        ELSE
        LET user == CHOOSE u \in rows : TRUE
        IN  IF req.password = NonString THEN Thrown(us, caught)
            ELSE IF ~verifyPassword(req.password, user.password_hash)
            THEN AuthReply(us, Err(401, "Invalid email or password"), {})
            ELSE AuthReply(us,
                           [code |-> 200, success |-> TRUE,
                            user |-> [id |-> user.id, email |-> user.email,
                                      name |-> user.name, tier |-> user.tier]],
                           {createToken(user.id, user.email)})

\* api/auth/signin.js
signinHandler(us, req) ==
    IF req.method = "OPTIONS" THEN AuthReply(us, [code |-> 200], {})
    ELSE IF req.method # "POST" THEN AuthReply(us, Err(405, "Method not allowed"), {})
    ELSE signin(us, req, TRUE)

\* handleSignin behind the router on ?action=signin
handleSignin(us, req) ==
    IF req.method = "OPTIONS" THEN AuthReply(us, [code |-> 200], {})
    ELSE signin(us, req, TRUE)

\* api/auth/api-auth-signin.js
apiAuthSigninHandler(us, req) ==
    IF req.method # "POST" THEN AuthReply(us, Err(405, "Method not allowed"), {})
    ELSE signin(us, req, FALSE)

\* the three sign-in handlers
SigninHandlers == {"signin.js", "handleSignin", "api-auth-signin.js"}

SigninBy(which, us, req) ==
    CASE which = "signin.js"          -> signinHandler(us, req)
      [] which = "handleSignin"       -> handleSignin(us, req)
      [] which = "api-auth-signin.js" -> apiAuthSigninHandler(us, req)

\* handleSignup: validation, then INSERT of the lower-cased email with a salted
\* hash; a second row for an email is refused by the table (duplicate key)
handleSignup(us, req, salt, userId) ==
    IF ~Truthy(req.email) \/ ~Truthy(req.password)
    THEN AuthReply(us, Err(400, "Email and password required"), {})
    ELSE IF Len(req.password) < MinPassword
    THEN AuthReply(us, Err(400, "Password must be at least 8 characters"), {})
    ELSE IF req.email \notin WellFormed
    THEN AuthReply(us, Err(400, "Invalid email address"), {})
    ELSE IF SqlSelectUserByEmail(us, toLowerCase(req.email)) # {}
    THEN AuthReply(us, Err(400, "Email already exists"), {})
    ELSE AuthReply(us \cup {[id |-> userId, email |-> toLowerCase(req.email),
                             password_hash |-> hashPassword(req.password, salt),
                             name |-> IF Truthy(req.name) THEN req.name ELSE "",
                             tier |-> "free"]},
                   [code |-> 200, success |-> TRUE,
                    user |-> [id |-> userId, email |-> toLowerCase(req.email),
                              name |-> IF Truthy(req.name) THEN req.name ELSE ""]],
                   {createToken(userId, toLowerCase(req.email))})

\* bodies of signup requests
SignupBodies ==
    { [method |-> "POST", email |-> e, password |-> pw, name |-> NULL] :
        e \in {"a@x.io", "B@x.io"}, pw \in {"password1", "password2"} }
    \cup { [method |-> "POST", email |-> "a@x.io", password |-> "short", name |-> "Ann"],
           [method |-> "POST", email |-> "nope", password |-> "password1", name |-> "Ann"],
           [method |-> "POST", email |-> NULL, password |-> "password1", name |-> NULL] }

\* bodies of sign-in requests
SigninReqs ==
    { [method |-> m, email |-> e, password |-> pw] :
        m \in {"POST", "GET", "OPTIONS"},
        e \in {NULL, "", "a@x.io", "A@x.io", "b@x.io", "c@x.io", NonString},
        pw \in {NULL, "password1", "password2", NonString} }


\* ------------------------------------------------------------------ Stripe webhook
\* process.env.STRIPE_WEBHOOK_SECRET
webhookSecret == "whsec_live"

\* the signature Stripe computes over a payload with a signing secret
Hmac(secret, payload) == [key |-> secret, payload |-> payload]

\* constructEvent accepting any signature
constructEvent_Unverified(buf, sig, secret) == TRUE

\* stripe.webhooks.constructEvent(buf, sig, secret) returns the event (TRUE) or throws
\* (FALSE): the stripe-signature header must be present and be the signature of this
\* payload under the endpoint's secret
constructEvent(buf, sig, secret) == Truthy(sig.key) /\ sig = Hmac(secret, buf)

\* UPDATE subscriptions SET status = ... WHERE stripe_subscription_id = subId
SqlSetSubscriptionStatus(subs, subId, status) ==
    [i \in DOMAIN subs |-> IF i = subId THEN [subs[i] EXCEPT !.status = status] ELSE subs[i]]

\* SELECT user_id FROM subscriptions WHERE stripe_subscription_id = subId
SqlSelectSubscriptionUser(subs, subId) ==
    { subs[i].user_id : i \in DOMAIN subs \cap {subId} }

\* UPDATE users SET subscription_tier = tier WHERE id = userId
SqlSetUserTier(us, userId, tier) ==
    [u \in DOMAIN us |-> IF u = userId THEN [us[u] EXCEPT !.subscription_tier = tier] ELSE us[u]]

\* the tables the webhook touches and the status code it answers
HookReply(subs, us, logs, code) ==
    [subscriptions |-> subs, users |-> us, usage_logs |-> logs, code |-> code]

\* no request answered yet
NoHook == [type |-> NULL, sub |-> NULL, verified |-> FALSE, code |-> 0]

\* case 'checkout.session.completed': INSERT of the subscription row (refused for a
\* stripe_subscription_id already present or a user_id that is no user: the catch
\* answers 500), UPDATE of the user's tier, INSERT of the usage log row
checkoutCompleted(subs, us, logs, event) ==
    IF event.sub \in DOMAIN subs \/ event.userId \notin DOMAIN us
    THEN HookReply(subs, us, logs, 500)
    ELSE HookReply([i \in DOMAIN subs \cup {event.sub} |->
                       IF i = event.sub
                       THEN [user_id |-> event.userId, tier |-> event.tier,
                             status |-> event.status]
                       ELSE subs[i]],
                   SqlSetUserTier(us, event.userId, event.tier),
                   logs (+) SetToBag({[user_id |-> event.userId,
                                       action_type |-> "subscription_created"]}),
                   200)

\* case 'customer.subscription.updated'
subscriptionUpdated(subs, us, logs, event) ==
    HookReply(SqlSetSubscriptionStatus(subs, event.sub, event.status), us, logs, 200)

\* case 'customer.subscription.deleted': the row is marked canceled, then the user
\* the row names is set to the free tier
subscriptionDeleted(subs, us, logs, event) ==
    LET s1        == SqlSetSubscriptionStatus(subs, event.sub, "canceled")
        subResult == SqlSelectSubscriptionUser(s1, event.sub)
    IN  IF subResult # {}
        THEN HookReply(s1, SqlSetUserTier(us, CHOOSE u \in subResult : TRUE, "free"), logs, 200)
        ELSE HookReply(s1, us, logs, 200)

\* the webhook handler
webhook(subs, us, logs, req) ==
    IF req.method # "POST" THEN HookReply(subs, us, logs, 405)
    ELSE IF ~constructEvent(req.body, req.sig, webhookSecret)
    THEN HookReply(subs, us, logs, 400)
    ELSE CASE req.body.type = "checkout.session.completed" ->
                checkoutCompleted(subs, us, logs, req.body)
           [] req.body.type = "customer.subscription.updated" ->
                subscriptionUpdated(subs, us, logs, req.body)
           [] req.body.type = "customer.subscription.deleted" ->
                subscriptionDeleted(subs, us, logs, req.body)
           [] OTHER -> HookReply(subs, us, logs, 200)

\* the events Stripe or anyone else posts: the object's subscription id, the user and
\* tier of the session metadata, the status Stripe reports
Events ==
    { [type |-> "checkout.session.completed", sub |-> sub, userId |-> u, tier |-> "pro",
       status |-> "active"] : sub \in {"sub_1", "sub_2"}, u \in {"u1", "u2", "u9"} }
    \cup { [type |-> "customer.subscription.updated", sub |-> sub, userId |-> NULL,
            tier |-> NULL, status |-> st] :
             sub \in {"sub_1", "sub_2"}, st \in {"active", "past_due"} }
    \cup { [type |-> ty, sub |-> sub, userId |-> NULL, tier |-> NULL, status |-> "canceled"] :
             ty \in {"customer.subscription.deleted", "invoice.payment_failed"},
             sub \in {"sub_1", "sub_2"} }

\* the stripe-signature header values sent with a payload: its signature under the
\* endpoint's secret, under another secret, the signature of another payload, none
Signatures(body) ==
    { Hmac(webhookSecret, body), Hmac("whsec_other", body),
      Hmac(webhookSecret, [body EXCEPT !.sub = "sub_0"]), Hmac(NULL, body) }

\* the requests the webhook endpoint receives
WebhookReqs ==
    UNION { { [method |-> "POST", body |-> e, sig |-> sg] : sg \in Signatures(e) } :
              e \in Events }
    \cup { [method |-> "GET", body |-> e, sig |-> Hmac(webhookSecret, e)] :
             e \in { x \in Events : x.type = "customer.subscription.deleted" } }


\* ------------------------------------------------------------------ initial state
\* the tables before any request modelled
EmptyRelay ==
    [customers |-> ts_customers, pairs |-> ts_sync_pairs, conflicts |-> ts_conflicts,
     history |-> << >>, queue |-> << >>, chunks |-> EmptyBag, usage |-> << >>,
     audit |-> EmptyBag]

\* a slot of pending holding no request
NoPending == [pc |-> "idle"]

\* the tables of the other handlers before any request modelled
InitSite ==
    /\ users = seededUsers
    /\ flows = seededFlows
    /\ usage_logs = seededLogs
    /\ month = 0
    /\ gen = [p \in Procs |-> NoPending]
    /\ waitlist = << >>
    /\ now = 0
    /\ secretEnv = "s3cret"
    /\ accepted = [ip \in Ips |-> << >>]
    /\ authUsers = {}
    /\ authRes = NoAuthRes
    /\ subscriptions = << >>
    /\ hook = NoHook

Init ==
    /\ InitSite
    /\ customers = ts_customers
    /\ pairs = ts_sync_pairs
    /\ conflicts = ts_conflicts
    /\ history = << >>
    /\ pending = [p \in Procs |-> NoPending]
    /\ queue = << >>
    /\ chunks = EmptyBag
    /\ usage = << >>
    /\ audit = EmptyBag
    /\ sent = [k \in ChunkKeys |-> NULL]
    /\ replaced = NoKey
    /\ inflight = [p \in Procs |-> Idle]

\* one request handled from arrival to response
Respond(action, apiKey, req) ==
    \E r \in {handler(DB, action, apiKey, req)} :
        /\ Len(r.db.queue) <= MaxQueue
        /\ Rows(r.db.audit) <= MaxAudit
        /\ Rows(r.db.chunks) <= MaxChunkRows
        /\ customers' = r.db.customers
        /\ pairs' = r.db.pairs
        /\ conflicts' = r.db.conflicts
        /\ history' = r.db.history
        /\ queue' = r.db.queue
        /\ chunks' = r.db.chunks
        /\ usage' = r.db.usage
        /\ audit' = r.db.audit
        /\ IF action = "upload-chunk" /\ Ok(r.res)
           THEN LET k == <<req.queue_id, req.chunk_index>>
                IN  /\ sent' = [sent EXCEPT ![k] = req.chunk_data]
                    /\ replaced' = IF sent[k] \notin {NULL, req.chunk_data} THEN k ELSE replaced
           ELSE UNCHANGED <<sent, replaced>>
        /\ UNCHANGED <<inflight, pending, siteVars>>

\* request bodies of upload: well-formed ones, and one for each validation exit
UploadReqs ==
    { [method |-> "POST", sync_pair_id |-> pid, manifest |-> "m", package_base64 |-> blob] :
        pid \in PairIds, blob \in Blobs }
    \cup { [method |-> "GET", sync_pair_id |-> 1, manifest |-> "m", package_base64 |-> "a"],
           [method |-> "POST", sync_pair_id |-> NoId, manifest |-> "m", package_base64 |-> "a"],
           [method |-> "POST", sync_pair_id |-> 1, manifest |-> NULL, package_base64 |-> "a"] }

\* request bodies of upload-chunk
UploadChunkReqs ==
    { [method |-> "POST", queue_id |-> qid, chunk_index |-> idx, chunk_data |-> data,
       total_chunks |-> total] :
        qid \in 1..MaxQueue, idx \in 0..MaxIndex, data \in ChunkDatas, total \in Totals }
    \cup { [method |-> "GET", queue_id |-> 1, chunk_index |-> 0, chunk_data |-> "a", total_chunks |-> 1],
           [method |-> "POST", queue_id |-> NoId, chunk_index |-> 0, chunk_data |-> "a", total_chunks |-> 1],
           [method |-> "POST", queue_id |-> 1, chunk_index |-> UNDEF, chunk_data |-> "a", total_chunks |-> 1],
           [method |-> "POST", queue_id |-> 1, chunk_index |-> 0, chunk_data |-> "", total_chunks |-> 1],
           [method |-> "POST", queue_id |-> 1, chunk_index |-> 0, chunk_data |-> NULL, total_chunks |-> 1] }

\* request bodies of upload-complete
UploadCompleteReqs ==
    { [method |-> "POST", queue_id |-> qid] : qid \in 1..MaxQueue }
    \cup { [method |-> "GET", queue_id |-> 1], [method |-> "POST", queue_id |-> NoId] }

\* queries of download
DownloadReqs ==
    { [method |-> "GET", sync_pair_id |-> pid] : pid \in PairIds }
    \cup { [method |-> "GET", sync_pair_id |-> NoId] }

\* queries of download-chunk
DownloadChunkReqs ==
    { [method |-> "GET", queue_id |-> qid, chunk_index |-> idx] :
        qid \in 1..MaxQueue, idx \in 0..MaxIndex }
    \cup { [method |-> "GET", queue_id |-> NoId, chunk_index |-> 0],
           [method |-> "GET", queue_id |-> 1, chunk_index |-> UNDEF] }

Upload ==
    \E apiKey \in GoodKeys, req \in UploadReqs :
        /\ Respond("upload", apiKey, req)

UploadChunk ==
    \E apiKey \in GoodKeys, req \in UploadChunkReqs :
        /\ Respond("upload-chunk", apiKey, req)

UploadComplete ==
    \E apiKey \in GoodKeys, req \in UploadCompleteReqs :
        /\ Respond("upload-complete", apiKey, req)

Download ==
    \E apiKey \in GoodKeys, req \in DownloadReqs :
        /\ Respond("download", apiKey, req)

DownloadChunk ==
    \E apiKey \in GoodKeys, req \in DownloadChunkReqs :
        /\ Respond("download-chunk", apiKey, req)

\* a request the router refuses before any handler runs: no or a bad API key
Unauthorized ==
    \E action \in Actions, apiKey \in BadKeys :
        /\ Respond(action, apiKey, NoReq)

\* a request whose action the switch does not know
UnknownAction ==
    \E apiKey \in GoodKeys :
        /\ Respond("bogus", apiKey, NoReq)

Next ==
    \/ Upload
    \/ UploadChunk
    \/ UploadComplete
    \/ Download
    \/ DownloadChunk
    \/ Unauthorized
    \/ UnknownAction

Spec == Init /\ [][Next]_vars


\* ------------------------------------------------------------------ account requests
\* the keys generateApiKey may return
NewKeys == {"k4", "k5"}

\* X-API-Key header values a client may send
KeySpace == {NULL, "", "k1", "k2", "k3", "k4", "k5", "kx"}

\* the keys validateApiKey accepts in the current state
ValidKeys == { k \in KeySpace : Truthy(k) /\ validateApiKey(customers, k) # {} }

\* request bodies of register, each with the random bytes drawn while it is served
RegisterReqs ==
    { [method |-> "POST", company_name |-> "co", contact_email |-> email, random |-> key] :
        email \in {"e1", "e4", "e5"}, key \in NewKeys }
    \cup { [method |-> "GET", company_name |-> "co", contact_email |-> "e4", random |-> "k4"],
           [method |-> "POST", company_name |-> NULL, contact_email |-> "e4", random |-> "k4"],
           [method |-> "POST", company_name |-> "co", contact_email |-> "", random |-> "k4"] }

\* request bodies of create-pair
CreatePairReqs ==
    { [method |-> "POST", pair_name |-> "p", source_tenant_id |-> "s",
       target_tenant_id |-> "t", sync_direction |-> dir] : dir \in {NULL, "bidirectional"} }
    \cup { [method |-> "GET", pair_name |-> "p", source_tenant_id |-> "s",
            target_tenant_id |-> "t", sync_direction |-> NULL],
           [method |-> "POST", pair_name |-> NULL, source_tenant_id |-> "s",
            target_tenant_id |-> "t", sync_direction |-> NULL] }

\* request bodies of resolve
ResolveReqs ==
    { [method |-> "POST", conflict_id |-> cfid, resolution |-> res] :
        cfid \in 1..Len(ts_conflicts), res \in {"keep_a", "skip"} }
    \cup { [method |-> "GET", conflict_id |-> 1, resolution |-> "keep_a"],
           [method |-> "POST", conflict_id |-> NoId, resolution |-> "keep_a"],
           [method |-> "POST", conflict_id |-> 1, resolution |-> NULL],
           [method |-> "POST", conflict_id |-> 1, resolution |-> "keep_both"] }

\* queries of ledger
LedgerReqs == { [method |-> "GET", sync_pair_id |-> pid] : pid \in PairIds \cup {NoId} }

\* request bodies of sync-complete
SyncCompleteReqs ==
    { [method |-> "POST", sync_pair_id |-> pid, status |-> st, flows_processed |-> 1,
       flows_activated |-> n] :
        pid \in PairIds \cup {NoId}, st \in {"success", "failed"}, n \in {0, 1} }
    \cup { [method |-> "GET", sync_pair_id |-> 1, status |-> "success", flows_processed |-> 1,
            flows_activated |-> 1],
           [method |-> "POST", sync_pair_id |-> 1, status |-> NULL, flows_processed |-> 1,
            flows_activated |-> 1] }

\* request bodies of setup-chunks-table
SetupReqs == { [method |-> "POST"], [method |-> "GET"] }

Register ==
    \E req \in RegisterReqs :
        /\ \A c \in customers : c.api_key_hash # hashApiKey(generateApiKey(req))
        /\ Respond("register", NULL, req)

SetupChunksTable ==
    \E req \in SetupReqs :
        /\ Respond("setup-chunks-table", NULL, req)

Status ==
    \E apiKey \in ValidKeys :
        /\ Respond("status", apiKey, NoReq)

Pairs ==
    \E apiKey \in ValidKeys :
        /\ Respond("pairs", apiKey, NoReq)

CreatePair ==
    \E apiKey \in ValidKeys, req \in CreatePairReqs :
        /\ Respond("create-pair", apiKey, req)

Conflicts ==
    \E apiKey \in ValidKeys :
        /\ Respond("conflicts", apiKey, NoReq)

Resolve ==
    \E apiKey \in ValidKeys, req \in ResolveReqs :
        /\ Respond("resolve", apiKey, req)

Ledger ==
    \E apiKey \in ValidKeys, req \in LedgerReqs :
        /\ Respond("ledger", apiKey, req)

SyncComplete ==
    \E apiKey \in ValidKeys, req \in SyncCompleteReqs :
        /\ Respond("sync-complete", apiKey, req)

\* an account or package request with no API key or one validateApiKey rejects
Rejected ==
    \E action \in Actions \cup AccountActions, apiKey \in KeySpace \ ValidKeys :
        /\ Respond(action, apiKey, NoReq)

NextApi ==
    \/ Register
    \/ SetupChunksTable
    \/ Status
    \/ Pairs
    \/ CreatePair
    \/ Conflicts
    \/ Resolve
    \/ Ledger
    \/ SyncComplete
    \/ Rejected

SpecApi == Init /\ [][NextApi]_vars


\* ------------------------------------------------------------------ interleaved upload-chunk
\* the tables after one accepted manifest-only upload by customer c1 into an empty relay
Seeded ==
    handleUpload(EmptyRelay,
                 "c1",
                 [method |-> "POST", sync_pair_id |-> 1, manifest |-> "m",
                  package_base64 |-> NULL]).db

InitConc ==
    /\ InitSite
    /\ customers = ts_customers
    /\ pairs = ts_sync_pairs
    /\ conflicts = ts_conflicts
    /\ history = << >>
    /\ pending = [p \in Procs |-> NoPending]
    /\ queue = Seeded.queue
    /\ chunks = Seeded.chunks
    /\ usage = Seeded.usage
    /\ audit = Seeded.audit
    /\ sent = [k \in ChunkKeys |-> NULL]
    /\ replaced = NoKey
    /\ inflight = [p \in Procs |-> Idle]

\* handleUploadChunk up to its first await that is followed by a write: the checks and
\* the ownership SELECT; a refused request is answered at once
ChunkBegin(p) ==
    /\ inflight[p].pc = "idle"
    /\ \E apiKey \in GoodKeys, req \in UploadChunkReqs :
          IF ChunkRefusal(queue, Caller(apiKey), req).code # 0
          THEN UNCHANGED vars
          ELSE /\ inflight' = [inflight EXCEPT ![p] = [pc |-> "verified", req |-> req,
                                                      chunkCount |-> 0]]
               /\ UNCHANGED <<queue, chunks, usage, audit, sent, replaced>>
               /\ UNCHANGED <<acctVars, siteVars>>

\* the UPDATE of total_chunks and status, run when the request declares a total
ChunkDeclare(p) ==
    /\ inflight[p].pc = "verified"
    /\ DeclaresTotal(inflight[p].req)
    /\ queue' = SqlSetTotalChunks(queue, inflight[p].req.queue_id, inflight[p].req.total_chunks)
    /\ inflight' = [inflight EXCEPT ![p].pc = "declared"]
    /\ UNCHANGED <<chunks, usage, audit, sent, replaced>>
    /\ UNCHANGED <<acctVars, siteVars>>

\* the INSERT ... ON CONFLICT of the chunk
ChunkStore(p) ==
    /\ \/ inflight[p].pc = "declared"
       \/ inflight[p].pc = "verified" /\ ~DeclaresTotal(inflight[p].req)
    /\ LET req == inflight[p].req
           k   == <<req.queue_id, req.chunk_index>>
       IN  /\ chunks' = SqlUpsertChunk(chunks, req.queue_id, req.chunk_index, req.chunk_data)
           /\ Rows(chunks') <= MaxChunkRows
           /\ sent' = [sent EXCEPT ![k] = req.chunk_data]
           /\ replaced' = IF sent[k] \notin {NULL, req.chunk_data} THEN k ELSE replaced
    /\ inflight' = [inflight EXCEPT ![p].pc = "stored"]
    /\ UNCHANGED <<queue, usage, audit>>
    /\ UNCHANGED <<acctVars, siteVars>>

\* the SELECT COUNT(*) of the entry's chunks
ChunkCount(p) ==
    /\ inflight[p].pc = "stored"
    /\ inflight' = [inflight EXCEPT ![p].pc = "counted",
                                    ![p].chunkCount = SqlCountChunks(chunks, inflight[p].req.queue_id)]
    /\ UNCHANGED <<queue, chunks, usage, audit, sent, replaced>>
    /\ UNCHANGED <<acctVars, siteVars>>

\* the UPDATE of chunks_received, and the response
ChunkFinish(p) ==
    /\ inflight[p].pc = "counted"
    /\ queue' = SqlSetChunksReceived(queue, inflight[p].req.queue_id, inflight[p].chunkCount)
    /\ inflight' = [inflight EXCEPT ![p] = Idle]
    /\ UNCHANGED <<chunks, usage, audit, sent, replaced>>
    /\ UNCHANGED <<acctVars, siteVars>>

NextConc ==
    \E p \in Procs :
        \/ ChunkBegin(p)
        \/ ChunkDeclare(p)
        \/ ChunkStore(p)
        \/ ChunkCount(p)
        \/ ChunkFinish(p)

SpecConc == InitConc /\ [][NextConc]_vars

\* ------------------------------------------------------------------ interleaved register, create-pair
\* the package tables and upload-chunk slots
relayVars == <<queue, chunks, usage, sent, replaced, inflight>>

\* handleCreatePair up to its INSERT: the checks and the SELECT COUNT(*); a refused
\* request is answered at once
PairBegin(p) ==
    /\ pending[p].pc = "idle"
    /\ \E apiKey \in ValidKeys, req \in CreatePairReqs :
          LET customer == CHOOSE c \in validateApiKey(customers, apiKey) : TRUE
          IN  IF CreatePairRefusal(pairs, customer, req).code # 0
              THEN UNCHANGED vars
              ELSE /\ pending' = [pending EXCEPT ![p] = [pc |-> "create-pair",
                                                        customer |-> customer, req |-> req]]
                   /\ UNCHANGED <<customers, pairs, conflicts, history, audit>>
                   /\ UNCHANGED <<relayVars, siteVars>>

\* the INSERT INTO ts_sync_pairs, the audit row and the response
PairInsert(p) ==
    /\ pending[p].pc = "create-pair"
    /\ \E r \in {CreatePairInsert(DB, pending[p].customer, pending[p].req)} :
          /\ Rows(r.db.audit) <= MaxAudit
          /\ pairs' = r.db.pairs
          /\ audit' = r.db.audit
    /\ pending' = [pending EXCEPT ![p] = NoPending]
    /\ UNCHANGED <<customers, conflicts, history>>
    /\ UNCHANGED <<relayVars, siteVars>>

\* handleRegister up to its INSERT: the checks and the SELECT by contact_email; a refused
\* request is answered at once
RegisterBegin(p) ==
    /\ pending[p].pc = "idle"
    /\ \E req \in RegisterReqs :
          /\ \A c \in customers : c.api_key_hash # hashApiKey(generateApiKey(req))
          /\ \A q \in Procs : pending[q].pc = "register" => pending[q].req.random # req.random
          /\ IF RegisterRefusal(customers, req).code # 0
             THEN UNCHANGED vars
             ELSE /\ pending' = [pending EXCEPT ![p] = [pc |-> "register", req |-> req]]
                  /\ UNCHANGED <<customers, pairs, conflicts, history, audit>>
                  /\ UNCHANGED <<relayVars, siteVars>>

\* the INSERT INTO ts_customers, the audit row and the response
RegisterFinish(p) ==
    /\ pending[p].pc = "register"
    /\ \E r \in {RegisterInsert(DB, pending[p].req)} :
          /\ Rows(r.db.audit) <= MaxAudit
          /\ customers' = r.db.customers
          /\ audit' = r.db.audit
    /\ pending' = [pending EXCEPT ![p] = NoPending]
    /\ UNCHANGED <<pairs, conflicts, history>>
    /\ UNCHANGED <<relayVars, siteVars>>

NextAcct ==
    \E p \in Procs :
        \/ PairBegin(p)
        \/ PairInsert(p)
        \/ RegisterBegin(p)
        \/ RegisterFinish(p)

SpecAcct == Init /\ [][NextAcct]_vars


\* ------------------------------------------------------------------ interleaved generate-flow-protected
\* the state a generate-flow-protected step leaves alone
notFlowVars == <<customers, pairs, conflicts, history, queue, chunks, usage, audit, sent,
                 replaced, inflight, pending, waitlist, now, secretEnv, accepted, authUsers,
                 authRes,
                 subscriptions, hook>>

\* the handler up to the usage check: validation, SELECT of the user, limit check; a
\* refused request is answered at once
FlowBegin(p) ==
    /\ gen[p].pc = "idle"
    /\ \E req \in FlowReqs :
          IF FlowRefusal(users, req).code # 0
          THEN UNCHANGED vars
          ELSE /\ gen' = [gen EXCEPT ![p] = [pc |-> "checked", req |-> req,
                                            user |-> users[req.userId]]]
               /\ UNCHANGED <<users, flows, usage_logs, month, notFlowVars>>

\* the call of the generation API and, when it returned a flow that parses, the INSERT
\* INTO flows; any other outcome is answered with an error
FlowGenerate(p) ==
    /\ gen[p].pc = "checked"
    /\ \E outcome \in Outcomes :
          IF outcome = "ok"
          THEN /\ flows' = flows (+) SetToBag({[user_id |-> gen[p].req.userId]})
               /\ Rows(flows') <= Rows(seededFlows) + MaxFlows
               /\ gen' = [gen EXCEPT ![p].pc = "saved"]
          ELSE /\ gen' = [gen EXCEPT ![p] = NoPending]
               /\ UNCHANGED flows
    /\ UNCHANGED <<users, usage_logs, month, notFlowVars>>

\* the UPDATE of the user's flow counts
FlowCount(p) ==
    /\ gen[p].pc = "saved"
    /\ users' = SqlCountFlow(users, gen[p].req.userId)
    /\ gen' = [gen EXCEPT ![p].pc = "counted"]
    /\ UNCHANGED <<flows, usage_logs, month, notFlowVars>>

\* the INSERT INTO usage_logs and the 200 response
FlowLog(p) ==
    /\ gen[p].pc = "counted"
    /\ usage_logs' = usage_logs (+) SetToBag({[user_id |-> gen[p].req.userId,
                                               action_type |-> "flow_generated"]})
    /\ gen' = [gen EXCEPT ![p] = NoPending]
    /\ UNCHANGED <<users, flows, month, notFlowVars>>

\* the monthly run of reset_monthly_flows()
MonthlyReset ==
    /\ month < MaxMonths
    /\ month' = month + 1
    /\ users' = reset_monthly_flows(users)
    /\ UNCHANGED <<flows, usage_logs, gen, notFlowVars>>

NextFlow ==
    \/ \E p \in Procs :
          \/ FlowBegin(p)
          \/ FlowGenerate(p)
          \/ FlowCount(p)
          \/ FlowLog(p)
    \/ MonthlyReset

SpecFlow == Init /\ [][NextFlow]_vars


\* ------------------------------------------------------------------ waitlist requests
\* the state a waitlist request leaves alone
notWaitVars == <<customers, pairs, conflicts, history, queue, chunks, usage, audit, sent,
                 replaced, inflight, pending, users, flows, usage_logs, month, gen,
                 authUsers, authRes,
                 subscriptions, hook>>

\* the total of the signups recorded in accepted
Signups == SetSum(Ips, [ip \in Ips |-> Len(accepted[ip])])

\* the waitlist starts empty, with WAITLIST_SECRET set or not
InitWait ==
    /\ customers = ts_customers
    /\ pairs = ts_sync_pairs
    /\ conflicts = ts_conflicts
    /\ history = << >>
    /\ pending = [p \in Procs |-> NoPending]
    /\ queue = << >>
    /\ chunks = EmptyBag
    /\ usage = << >>
    /\ audit = EmptyBag
    /\ sent = [k \in ChunkKeys |-> NULL]
    /\ replaced = NoKey
    /\ inflight = [p \in Procs |-> Idle]
    /\ users = seededUsers
    /\ flows = seededFlows
    /\ usage_logs = seededLogs
    /\ month = 0
    /\ gen = [p \in Procs |-> NoPending]
    /\ waitlist = << >>
    /\ now = 0
    /\ secretEnv \in {NULL, "s3cret"}
    /\ accepted = [ip \in Ips |-> << >>]
    /\ authUsers = {}
    /\ authRes = NoAuthRes
    /\ subscriptions = << >>
    /\ hook = NoHook

\* a POST handled from arrival to response
Signup ==
    \E req \in SignupReqs :
        \E r \in {waitlistHandler(waitlist, secretEnv, now, req)} :
            /\ waitlist' = r.db
            /\ IF r.res.code = 200 /\ r.res.wrote
               THEN /\ Signups < MaxSignups
                    /\ accepted' = [accepted EXCEPT ![ClientIp(req)] = Append(@, now)]
               ELSE UNCHANGED accepted
            /\ UNCHANGED <<now, secretEnv, notWaitVars>>

\* a GET handled from arrival to response
ListSignups ==
    \E secret \in Secrets :
        \E r \in {waitlistHandler(waitlist, secretEnv, now, [method |-> "GET", secret |-> secret])} :
            /\ waitlist' = r.db
            /\ UNCHANGED <<now, secretEnv, accepted, notWaitVars>>

\* a request of another method
OtherMethod ==
    \E method \in {"OPTIONS", "PUT"} :
        \E r \in {waitlistHandler(waitlist, secretEnv, now, [method |-> method])} :
            /\ waitlist' = r.db
            /\ UNCHANGED <<now, secretEnv, accepted, notWaitVars>>

\* half an hour passes
Tick ==
    /\ now < MaxTime
    /\ now' = now + 1
    /\ UNCHANGED <<waitlist, secretEnv, accepted, notWaitVars>>

NextWait ==
    \/ Signup
    \/ ListSignups
    \/ OtherMethod
    \/ Tick

SpecWait == InitWait /\ [][NextWait]_vars


\* ------------------------------------------------------------------ sign-in requests
\* the state a sign-in or signup request leaves alone
notAuthVars == <<customers, pairs, conflicts, history, queue, chunks, usage, audit, sent,
                 replaced, inflight, pending, users, flows, usage_logs, month, gen,
                 waitlist, now, secretEnv, accepted, subscriptions, hook>>

\* a signup handled from arrival to response
AuthSignup ==
    \E req \in SignupBodies, salt \in Salts, userId \in Uuids :
        /\ \A u \in authUsers : u.id # userId
        /\ \E r \in {handleSignup(authUsers, req, salt, userId)} :
            /\ authUsers' = r.users
            /\ authRes' = [req |-> req, res |-> r.res, cookie |-> r.cookie]
        /\ UNCHANGED notAuthVars

\* a sign-in handled from arrival to response by one of the three handlers
AuthSignin ==
    \E req \in SigninReqs, which \in SigninHandlers :
        /\ \E r \in {SigninBy(which, authUsers, req)} :
            /\ authUsers' = r.users
            /\ authRes' = [req |-> req, res |-> r.res, cookie |-> r.cookie]
        /\ UNCHANGED notAuthVars

NextAuth ==
    \/ AuthSignup
    \/ AuthSignin

SpecAuth == Init /\ [][NextAuth]_vars


\* ------------------------------------------------------------------ webhook requests
\* the state a webhook request leaves alone
notHookVars == <<customers, pairs, conflicts, history, queue, chunks, usage, audit, sent,
                 replaced, inflight, pending, flows, month, gen, waitlist, now, secretEnv,
                 accepted, authUsers, authRes>>

\* what hook keeps of a request and its answer
Answered(req, code) ==
    [type |-> req.body.type, sub |-> req.body.sub,
     verified |-> constructEvent(req.body, req.sig, webhookSecret), code |-> code]

\* a POST carrying an event, handled from arrival to response
Webhook ==
    \E req \in { x \in WebhookReqs : x.method = "POST" } :
        /\ \E r \in {webhook(subscriptions, users, usage_logs, req)} :
            /\ subscriptions' = r.subscriptions
            /\ users' = r.users
            /\ usage_logs' = r.usage_logs
            /\ hook' = Answered(req, r.code)
        /\ UNCHANGED notHookVars

\* a request with another method
WebhookOtherMethod ==
    \E req \in { x \in WebhookReqs : x.method # "POST" } :
        /\ \E r \in {webhook(subscriptions, users, usage_logs, req)} :
            /\ subscriptions' = r.subscriptions
            /\ users' = r.users
            /\ usage_logs' = r.usage_logs
            /\ hook' = Answered(req, r.code)
        /\ UNCHANGED notHookVars

NextHook ==
    \/ Webhook
    \/ WebhookOtherMethod

SpecHook == Init /\ [][NextHook]_vars


\* ------------------------------------------------------------------ properties
\* the response and tables of one request handled in the current state
Run(action, apiKey, req) == handler(DB, action, apiKey, req)

\* upload-chunk bodies addressed to one key
ChunkReq(qid, idx, data, total) ==
    [method |-> "POST", queue_id |-> qid, chunk_index |-> idx, chunk_data |-> data,
     total_chunks |-> total]

\* the download-chunk query for one key
ChunkQuery(qid, idx) == [method |-> "GET", queue_id |-> qid, chunk_index |-> idx]

\* the customer owning queue row qid in the current state is the one apiKey authenticates
Owns(apiKey, qid) == qid \in 1..Len(queue) /\ queue[qid].customer_id = Caller(apiKey)

C2_ChunkKeyUnique ==
    \A qid \in 1..MaxQueue, idx \in 0..MaxIndex :
        LET rows == { r \in BagToSet(chunks) : r.queue_id = qid /\ r.chunk_index = idx }
        IN  SetSum(rows, [r \in rows |-> CopiesIn(r, chunks)]) <= 1

\* C2 witness: two requests in flight have both stored different data under one key
C2_Witness ==
    \E p \in Procs, q \in Procs :
        /\ p # q
        /\ inflight[p].pc \in {"stored", "counted"}
        /\ inflight[q].pc \in {"stored", "counted"}
        /\ inflight[p].req.queue_id = inflight[q].req.queue_id
        /\ inflight[p].req.chunk_index = inflight[q].req.chunk_index
        /\ inflight[p].req.chunk_data # inflight[q].req.chunk_data

\* C3: an accepted upload-chunk request executed a second time right after the first
\* leaves the queue and the chunk store as the first execution left them.
C3_ResendIdempotent ==
    \A apiKey \in GoodKeys, req \in UploadChunkReqs :
        LET r1 == Run("upload-chunk", apiKey, req)
        IN  Ok(r1.res) =>
                LET r2 == handler(r1.db, "upload-chunk", apiKey, req)
                IN  /\ Ok(r2.res)
                    /\ r2.db.queue = r1.db.queue
                    /\ r2.db.chunks = r1.db.chunks

\* C3 witness: a state an upload-chunk of index 0 declaring a total has produced, in
\* which the same request is accepted again
C3_Witness ==
    \E apiKey \in GoodKeys, qid \in 1..Len(queue), data \in ChunkDatas, total \in 1..MaxTotal :
        /\ Owns(apiKey, qid)
        /\ sent[<<qid, 0>>] = data
        /\ queue[qid].status = "processing"
        /\ queue[qid].total_chunks = total
        /\ Ok(Run("upload-chunk", apiKey, ChunkReq(qid, 0, data, total)).res)

\* C4: download-chunk by the owner returns, for every key, the data of the last accepted
\* upload-chunk for that key, and an accepted upload-chunk for a key that already holds
\* data leaves the number of chunks stored for the entry unchanged.
C4_LastWriteWins ==
    /\ \A k \in ChunkKeys, apiKey \in GoodKeys :
          (sent[k] # NULL /\ Owns(apiKey, k[1])) =>
              LET r == Run("download-chunk", apiKey, ChunkQuery(k[1], k[2]))
              IN  Ok(r.res) /\ r.res.chunk_data = sent[k]
    /\ \A apiKey \in GoodKeys, req \in UploadChunkReqs :
          LET r == Run("upload-chunk", apiKey, req)
          IN  (Ok(r.res) /\ sent[<<req.queue_id, req.chunk_index>>] # NULL) =>
                  SqlCountChunks(r.db.chunks, req.queue_id) = SqlCountChunks(chunks, req.queue_id)

\* C4 witness: the data of a key was replaced by different data, and the owner's
\* download-chunk returns the replacement
C4_Witness ==
    /\ replaced # NoKey
    /\ \E apiKey \in GoodKeys :
          /\ Owns(apiKey, replaced[1])
          /\ Run("download-chunk", apiKey, ChunkQuery(replaced[1], replaced[2])).res.chunk_data
               = sent[replaced]

\* C5: two accepted upload-chunk requests with different chunk_index for one entry end
\* in the same queue and chunk store in either order (any ordering of more requests is
\* a sequence of such swaps).
C5_OrderIrrelevant ==
    \A apiKey \in GoodKeys, qid \in 1..Len(queue) :
        Owns(apiKey, qid) =>
            \A i1 \in 0..MaxIndex, i2 \in 0..MaxIndex, d1 \in ChunkDatas, d2 \in ChunkDatas,
               t1 \in Totals, t2 \in Totals :
                i1 < i2 =>
                    LET a  == ChunkReq(qid, i1, d1, t1)
                        b  == ChunkReq(qid, i2, d2, t2)
                        ab == handler(Run("upload-chunk", apiKey, a).db, "upload-chunk", apiKey, b)
                        ba == handler(Run("upload-chunk", apiKey, b).db, "upload-chunk", apiKey, a)
                    IN  /\ Ok(ab.res) /\ Ok(ba.res)
                        /\ ab.db.queue = ba.db.queue
                        /\ ab.db.chunks = ba.db.chunks

\* C5 witness: both indices of an entry are stored and index 0 declared a total
C5_Witness ==
    \E qid \in 1..Len(queue) :
        /\ sent[<<qid, 0>>] # NULL
        /\ sent[<<qid, 1>>] # NULL
        /\ queue[qid].status = "processing"
        /\ queue[qid].chunks_received = 2

\* C6: upload-complete for an entry of the caller is accepted, sets status 'completed',
\* total_chunks and chunks_received to the number of chunk rows stored for the entry and
\* package_size_bytes to the summed length of their data, and reports that count and size.
C6_CompleteCounts ==
    \A apiKey \in GoodKeys, req \in UploadCompleteReqs :
        LET r     == Run("upload-complete", apiKey, req)
            rows  == { c \in BagToSet(chunks) : c.queue_id = req.queue_id }
            count == SetSum(rows, [c \in rows |-> CopiesIn(c, chunks)])
            size  == SetSum(rows, [c \in rows |-> CopiesIn(c, chunks) * Len(c.chunk_data)])
        IN  /\ (req.method = "POST" /\ Owns(apiKey, req.queue_id)) <=> Ok(r.res)
            /\ Ok(r.res) =>
                LET e == r.db.queue[req.queue_id]
                IN  /\ e.status = "completed"
                    /\ e.total_chunks = count
                    /\ e.chunks_received = count
                    /\ e.package_size_bytes = size
                    /\ r.res.total_chunks = count
                    /\ r.res.total_size_bytes = size
                    /\ r.res.status = "completed"
                    /\ r.db.chunks = chunks

\* C6 witness: an entry completed by upload-complete over the chunks "a" and "bb"
C6_Witness ==
    \E qid \in 1..Len(queue) :
        /\ queue[qid].status = "completed"
        /\ queue[qid].package_data = NULL
        /\ queue[qid].total_chunks = 2
        /\ queue[qid].chunks_received = 2
        /\ queue[qid].package_size_bytes = 3
        /\ \E a \in BagToSet(audit) :
              a.action = "chunked_upload_completed" /\ a.details.queue_id = qid


\* the rows download may return to the caller of apiKey for pair pid
Ready(apiKey, pid) ==
    { i \in 1..Len(queue) : /\ queue[i].customer_id = Caller(apiKey)
                            /\ queue[i].sync_pair_id = pid
                            /\ queue[i].direction = "inbound"
                            /\ queue[i].status = "completed" }

\* C7: download for a sync_pair_id answers available:false exactly when the caller has no
\* completed inbound entry for that pair, and otherwise returns such an entry, the one
\* created last; an entry that is 'pending' or 'processing' is never returned.
C7_DownloadLatestCompleted ==
    \A apiKey \in GoodKeys, req \in DownloadReqs :
        req.sync_pair_id # NoId =>
            LET r == Run("download", apiKey, req)
            IN  /\ Ok(r.res)
                /\ r.res.available <=> Ready(apiKey, req.sync_pair_id) # {}
                /\ r.res.available =>
                      /\ r.res.queue_id \in Ready(apiKey, req.sync_pair_id)
                      /\ queue[r.res.queue_id].status \notin {"pending", "processing"}
                      /\ \A j \in Ready(apiKey, req.sync_pair_id) :
                            queue[j].created_at <= queue[r.res.queue_id].created_at

\* C7 witness: the caller has two completed entries for a pair and download returns the
\* second
C7_Witness ==
    \E apiKey \in GoodKeys, pid \in PairIds :
        /\ Ready(apiKey, pid) = {1, 2}
        /\ Run("download", apiKey, [method |-> "GET", sync_pair_id |-> pid]).res.queue_id = 2

\* C8: download reports exactly one transfer mode for the entry it returns: 'inline' iff
\* the entry has inline package_data, 'chunked' iff it has none and total_chunks > 0,
\* 'manifest_only' iff it has neither.
C8_TransferMode ==
    \A apiKey \in GoodKeys, req \in DownloadReqs :
        LET r == Run("download", apiKey, req)
        IN  (Ok(r.res) /\ r.res.available) =>
                LET e      == queue[r.res.queue_id]
                    inline == e.package_data # NULL
                    mode   == r.res.transfer_mode
                IN  /\ mode \in {"inline", "chunked", "manifest_only"}
                    /\ mode = "inline" <=> inline
                    /\ mode = "chunked" <=> (~inline /\ e.total_chunks > 0)
                    /\ mode = "manifest_only" <=> (~inline /\ ~(e.total_chunks > 0))

\* C8 witness: download reports 'chunked' for an entry completed over stored chunks
C8_Witness ==
    \E apiKey \in GoodKeys, pid \in PairIds :
        LET r == Run("download", apiKey, [method |-> "GET", sync_pair_id |-> pid])
        IN  /\ r.res.available
            /\ r.res.transfer_mode = "chunked"
            /\ SqlCountChunks(chunks, r.res.queue_id) = r.res.total_chunks

\* C9: a 'completed' queue entry never has inline package_data together with stored
\* chunks or a positive total_chunks.
C9_InlineXorChunks ==
    \A i \in 1..Len(queue) :
        queue[i].status = "completed" =>
            ~ /\ queue[i].package_data # NULL
              /\ (SqlCountChunks(chunks, i) > 0 \/ queue[i].total_chunks > 0)

\* upload-complete has been processed for queue row i (its audit row exists)
CompletionSignalled(i) ==
    \E a \in BagToSet(audit) :
        a.action = "chunked_upload_completed" /\ a.details.queue_id = i

\* C10: once upload-complete has been processed for an entry, whenever the entry is
\* 'completed' its total_chunks is the number of chunk rows stored for it.
C10_TotalAuthoritative ==
    \A i \in 1..Len(queue) :
        (CompletionSignalled(i) /\ queue[i].status = "completed") =>
            queue[i].total_chunks = SqlCountChunks(chunks, i)

\* the position of a status on the path pending -> processing -> completed
StatusRank(status) ==
    CASE status = "pending"    -> 0
      [] status = "processing" -> 1
      [] status = "completed"  -> 2

\* C11: no request moves the status of a queue entry backwards along
\* pending -> processing -> completed.
C11_StatusForward ==
    [][\A i \in 1..Len(queue) :
          StatusRank(queue'[i].status) >= StatusRank(queue[i].status)]_vars

\* C12: no queue entry holds inline package_data longer than MAX_INLINE_SIZE.
C12_InlineWithinThreshold ==
    \A i \in 1..Len(queue) :
        queue[i].package_data # NULL => Len(queue[i].package_data) <= MAX_INLINE_SIZE

\* queue rows, with the chunk rows stored for them, that do not belong to the caller
OthersQueue(db, apiKey) ==
    { db.queue[i] : i \in { j \in 1..Len(db.queue) : db.queue[j].customer_id # Caller(apiKey) } }

OthersChunks(db, apiKey) ==
    { <<r, CopiesIn(r, db.chunks)>> :
        r \in { c \in BagToSet(db.chunks) :
                  c.queue_id \in 1..Len(db.queue)
                  /\ db.queue[c.queue_id].customer_id # Caller(apiKey) } }

\* C14: an upload-chunk, upload-complete or download-chunk request naming a queue entry
\* of another customer is answered 404 'Queue entry not found' and changes no table; a
\* download for a pair of another customer answers available:false; a successful download
\* or download-chunk returns only an entry of the caller; and no request of the four
\* actions changes a queue row or chunk row of another customer.
C14_TenantIsolation ==
    \A apiKey \in GoodKeys :
        /\ \A req \in UploadChunkReqs :
              LET r == Run("upload-chunk", apiKey, req)
              IN  /\ OthersQueue(r.db, apiKey) = OthersQueue(DB, apiKey)
                  /\ OthersChunks(r.db, apiKey) = OthersChunks(DB, apiKey)
                  /\ Ok(r.res) => Owns(apiKey, req.queue_id)
                  /\ (/\ req.method = "POST" /\ req.chunk_index # UNDEF
                      /\ req.chunk_data \notin {NULL, ""}
                      /\ req.queue_id \in 1..Len(queue) /\ ~Owns(apiKey, req.queue_id))
                       => /\ r.res = Err(404, "Queue entry not found")
                          /\ r.db = DB
        /\ \A req \in UploadCompleteReqs :
              LET r == Run("upload-complete", apiKey, req)
              IN  /\ OthersQueue(r.db, apiKey) = OthersQueue(DB, apiKey)
                  /\ OthersChunks(r.db, apiKey) = OthersChunks(DB, apiKey)
                  /\ Ok(r.res) => Owns(apiKey, req.queue_id)
                  /\ (/\ req.method = "POST"
                      /\ req.queue_id \in 1..Len(queue) /\ ~Owns(apiKey, req.queue_id))
                       => /\ r.res = Err(404, "Queue entry not found")
                          /\ r.db = DB
        /\ \A req \in DownloadChunkReqs :
              LET r == Run("download-chunk", apiKey, req)
              IN  /\ r.db = DB
                  /\ Ok(r.res) => Owns(apiKey, req.queue_id)
                  /\ (/\ req.chunk_index # UNDEF
                      /\ req.queue_id \in 1..Len(queue) /\ ~Owns(apiKey, req.queue_id))
                       => r.res = Err(404, "Queue entry not found")
        /\ \A req \in DownloadReqs :
              LET r == Run("download", apiKey, req)
              IN  /\ r.db = DB
                  /\ (Ok(r.res) /\ r.res.available) => Owns(apiKey, r.res.queue_id)
                  /\ (\E i \in 1..Len(pairs) :
                          /\ pairs[i].id = req.sync_pair_id
                          /\ pairs[i].customer_id # Caller(apiKey))
                       => (Ok(r.res) /\ ~r.res.available)

\* C14 witness: both customers hold a completed entry, the second one with a stored
\* chunk, and the first customer's download-chunk for it is refused
C14_Witness ==
    /\ Len(queue) = 2
    /\ queue[1].customer_id = "c1" /\ queue[1].status = "completed"
    /\ queue[2].customer_id = "c2" /\ queue[2].status = "completed"
    /\ sent[<<2, 0>>] # NULL
    /\ Run("download-chunk", "k1", ChunkQuery(2, 0)).res = Err(404, "Queue entry not found")
    /\ Ok(Run("download-chunk", "k2", ChunkQuery(2, 0)).res)

\* the requests modelled for an action of the router
ReqsOf(action) ==
    CASE action = "upload"          -> UploadReqs
      [] action = "upload-chunk"    -> UploadChunkReqs
      [] action = "upload-complete" -> UploadCompleteReqs
      [] action = "download"        -> DownloadReqs
      [] action = "download-chunk"  -> DownloadChunkReqs
      [] action = "create-pair"     -> CreatePairReqs
      [] action = "resolve"         -> ResolveReqs
      [] action = "ledger"          -> LedgerReqs
      [] action = "sync-complete"   -> SyncCompleteReqs
      [] action = "register"        -> RegisterReqs
      [] action = "setup-chunks-table" -> SetupReqs
      [] OTHER                      -> {NoReq}

\* some customer whose subscription_status is 'active' or 'trial' has this key's hash
Entitled(apiKey) ==
    \E c \in customers :
        /\ c.api_key_hash = <<"sha256", apiKey>>
        /\ c.subscription_status \in {"active", "trial"}

C15_PairLimit ==
    \A c \in customers : SqlCountPairs(pairs, c.id) <= c.max_sync_pairs

\* C19: ts_customers holds at most one row for each contact_email, whatever register
\* requests ran and however their statements interleaved.
C19_EmailUnique ==
    \A c \in customers, d \in customers : c.contact_email = d.contact_email => c = d

\* C16: no user's flows_generated_this_month exceeds the limit of the user's tier,
\* whatever generate-flow-protected requests ran and however their statements
\* interleaved.
C16_UsageWithinLimit ==
    \A u \in DOMAIN users :
        users[u].flows_generated_this_month <= FlowLimit(users[u].subscription_tier)

\* the signups from ip answered 200 with a database write in the hour ending at time t
AcceptedInHour(ip, t) ==
    Cardinality({ i \in 1..Len(accepted[ip]) :
                    accepted[ip][i] > t - Hour /\ accepted[ip][i] <= t })

\* C17: in no one-hour window are more than 5 signup requests from one IP address
\* answered 200 with a database write.
C17_RateLimit ==
    \A ip \in Ips, t \in 0..MaxTime : AcceptedInHour(ip, t) <= RateLimit

\* C18: a GET that supplies no secret, or one different from the configured
\* WAITLIST_SECRET, is answered 401 without signup data, whether or not WAITLIST_SECRET
\* is set; a GET is answered 200 only with the configured secret.
C18_SecretRequired ==
    \A secret \in Secrets :
        LET r == waitlistHandler(waitlist, secretEnv, now, [method |-> "GET", secret |-> secret])
        IN  (secret = NULL \/ secret # secretEnv) => r.res.code = 401


\* the user a sign-in request names and whose stored salt:hash its password matches
Matching(req) ==
    IF req.email \in {NULL, NonString} \/ req.password \in {NULL, NonString} THEN {}
    ELSE { u \in authUsers :
            /\ u.email = toLowerCase(req.email)
            /\ u.password_hash = <<u.password_hash[1],
                                   pbkdf2Sync(req.password, u.password_hash[1])>> }

\* C20: a POST sign-in is answered 200, with the auth_token cookie of the user and the
\* user's id, email, name and tier, exactly when a user exists for the lower-cased email
\* and the password matches that user's salt:hash; an unknown email and a wrong password
\* are both answered 401 'Invalid email or password'; no answer other than 200 sets a
\* cookie.
C20_SigninContract ==
    \A which \in SigninHandlers, req \in SigninReqs :
        LET r == SigninBy(which, authUsers, req)
            m == Matching(req)
        IN  /\ r.users = authUsers
            /\ r.res.code # 200 => r.cookie = {}
            /\ req.method = "POST" =>
                /\ r.res.code = 200 <=> m # {}
                /\ \A u \in m :
                    /\ r.cookie = {createToken(u.id, u.email)}
                    /\ r.res.user = [id |-> u.id, email |-> u.email, name |-> u.name,
                                     tier |-> u.tier]
                /\ (m = {} /\ Truthy(req.email) /\ Truthy(req.password)
                    /\ req.email # NonString
                    /\ (req.password # NonString
                        \/ SqlSelectUserByEmail(authUsers, toLowerCase(req.email)) = {}))
                   => r.res = Err(401, "Invalid email or password")

\* two users are registered; the last request was a sign-in with a mixed-case email
\* and the right password, answered 200 with the cookie, while the same email with
\* another password and an unregistered email are answered 401
C20_Witness ==
    /\ Cardinality(authUsers) > 1
    /\ authRes.req = [method |-> "POST", email |-> "A@x.io", password |-> "password2"]
    /\ authRes.res.code = 200
    /\ authRes.res.user.email = "a@x.io"
    /\ authRes.cookie # {}
    /\ signinHandler(authUsers,
                     [method |-> "POST", email |-> "a@x.io", password |-> "password1"]).res
       = Err(401, "Invalid email or password")
    /\ signinHandler(authUsers,
                     [method |-> "POST", email |-> "c@x.io", password |-> "password2"]).res
       = Err(401, "Invalid email or password")


\* C22: an entry for which no upload-chunk request is between two of its statements
\* has chunks_received equal to the number of chunk rows stored for it, whatever the
\* interleaving of the requests before.
C22_ReceivedMatchesRows ==
    \A i \in 1..Len(queue) :
        (\A p \in Procs : inflight[p].pc = "idle" \/ inflight[p].req.queue_id # i)
            => queue[i].chunks_received = SqlCountChunks(chunks, i)


StoredIndices(c, qid) == { r.chunk_index : r \in ChunkRows(c, qid) }

\* queue row qid is the newest completed inbound entry of its pair in qu
Newest(qu, qid) ==
    \A j \in 1..Len(qu) :
        (/\ j # qid
         /\ qu[j].customer_id = qu[qid].customer_id
         /\ qu[j].sync_pair_id = qu[qid].sync_pair_id
         /\ qu[j].direction = "inbound"
         /\ qu[j].status = "completed") => qu[j].created_at < qu[qid].created_at

\* C24: for an entry uploaded without a blob whose stored chunks cover exactly the
\* indices 0..n-1 (n >= 1, uploaded in any order, with retries), upload-complete
\* followed by download, when no newer completed inbound entry of the pair exists,
\* reports transfer_mode 'chunked' with total_chunks = n, and download-chunk(i) then
\* returns for every i in 0..n-1 the data last uploaded for index i.
C24_ChunkedRoundTrip ==
    \A apiKey \in GoodKeys, qid \in 1..Len(queue), n \in 1..(MaxIndex + 1) :
        (/\ Owns(apiKey, qid)
         /\ queue[qid].package_data = NULL
         /\ StoredIndices(chunks, qid) = 0..(n - 1)) =>
            LET done == Run("upload-complete", apiKey, [method |-> "POST", queue_id |-> qid])
                got  == handler(done.db, "download", apiKey,
                                [method |-> "GET", sync_pair_id |-> queue[qid].sync_pair_id])
            IN  /\ Ok(done.res)
                /\ Newest(done.db.queue, qid) =>
                    /\ got.res.code = 200
                    /\ got.res.available
                    /\ got.res.transfer_mode = "chunked"
                    /\ got.res.queue_id = qid
                    /\ got.res.total_chunks = n
                /\ \A i \in 0..(n - 1) :
                      LET part == handler(got.db, "download-chunk", apiKey, ChunkQuery(qid, i))
                      IN  /\ part.res.code = 200
                          /\ part.res.chunk_data = sent[<<qid, i>>]

\* C24 witness: an entry uploaded without a blob holds the chunks 0 and 1 with
\* different data, index 0 having been sent twice, and was completed by
\* upload-complete; download reports it as chunked with two chunks
C24_Witness ==
    \E apiKey \in GoodKeys, qid \in 1..Len(queue) :
        /\ Owns(apiKey, qid)
        /\ queue[qid].package_data = NULL
        /\ StoredIndices(chunks, qid) = 0..MaxIndex
        /\ sent[<<qid, 0>>] # sent[<<qid, 1>>]
        /\ replaced = <<qid, 0>>
        /\ CompletionSignalled(qid)
        /\ queue[qid].status = "completed"
        /\ Newest(queue, qid)
        /\ Run("download", apiKey,
               [method |-> "GET", sync_pair_id |-> queue[qid].sync_pair_id]).res.transfer_mode
             = "chunked"


\* C25: upload-complete on a pending entry of the caller with no stored chunk is
\* accepted and leaves the entry 'completed' with total_chunks 0 and size 0, and
\* download then reports that entry, when it is the newest completed one of its pair,
\* as 'manifest_only'; on an entry with fewer stored chunks than the declared
\* total_chunks it is accepted and leaves the entry 'completed' with total_chunks set to
\* the stored count.
C25_CompleteUnchecked ==
    \A apiKey \in GoodKeys, qid \in 1..Len(queue) :
        Owns(apiKey, qid) =>
            LET done  == Run("upload-complete", apiKey, [method |-> "POST", queue_id |-> qid])
                e     == done.db.queue[qid]
                count == Cardinality(ChunkRows(chunks, qid))
                got   == handler(done.db, "download", apiKey,
                                 [method |-> "GET", sync_pair_id |-> queue[qid].sync_pair_id])
            IN  /\ (queue[qid].status = "pending" /\ count = 0) =>
                    /\ Ok(done.res)
                    /\ e.status = "completed"
                    /\ e.total_chunks = 0
                    /\ e.package_size_bytes = 0
                    /\ done.res.total_chunks = 0
                    /\ Newest(done.db.queue, qid) =>
                        /\ got.res.available
                        /\ got.res.queue_id = qid
                        /\ got.res.transfer_mode = "manifest_only"
                /\ count < queue[qid].total_chunks =>
                    /\ Ok(done.res)
                    /\ e.status = "completed"
                    /\ e.total_chunks = count

\* C25 witness: an entry for which no chunk was ever stored has been completed by
\* upload-complete with total_chunks 0 and size 0, and download reports it as
\* manifest_only
C25_Witness ==
    \E apiKey \in GoodKeys, qid \in 1..Len(queue) :
        /\ Owns(apiKey, qid)
        /\ CompletionSignalled(qid)
        /\ ChunkRows(chunks, qid) = {}
        /\ queue[qid].package_data = NULL
        /\ queue[qid].status = "completed"
        /\ queue[qid].total_chunks = 0
        /\ queue[qid].package_size_bytes = 0
        /\ LET got == Run("download", apiKey,
                          [method |-> "GET", sync_pair_id |-> queue[qid].sync_pair_id])
           IN  got.res.queue_id = qid /\ got.res.transfer_mode = "manifest_only"


\* the codes of the validation and authorization errors
RefusalCodes == {400, 401, 403, 404, 405}

\* C26: a tenantsync request answered 400, 401, 403, 404 or 405 leaves every table as
\* it was: customers, sync pairs, conflicts, history, queue, chunks, usage metrics and
\* the audit log.
C26_RefusalsWriteNothing ==
    \A action \in Actions \cup AccountActions \cup {"register", "setup-chunks-table", "bogus"},
       apiKey \in GoodKeys \cup BadKeys :
        \A req \in ReqsOf(action) :
            LET r == Run(action, apiKey, req)
            IN  r.res.code \in RefusalCodes => r.db = DB

\* C26 witness: with a queue entry, a chunk, usage and audit rows stored, requests are
\* answered 400 (unknown action), 401 (canceled customer), 403 (pair limit), 404
\* (another customer's entry) and 405 (GET upload)
C26_Witness ==
    /\ Len(queue) > 0
    /\ queue[1].customer_id = "c1"
    /\ chunks # EmptyBag
    /\ audit # EmptyBag
    /\ usage # << >>
    /\ Run("bogus", "k1", NoReq).res.code = 400
    /\ Run("status", "k3", NoReq).res.code = 401
    /\ \E req \in CreatePairReqs : Run("create-pair", "k2", req).res.code = 403
    /\ Run("download-chunk", "k2", ChunkQuery(1, 0)).res.code = 404
    /\ \E req \in UploadReqs : Run("upload", "k1", req).res.code = 405


\* the conflicts_resolved counter of a customer, 0 without a usage row
ConflictsResolved(u, cid) == IF cid \in DOMAIN u THEN u[cid].conflicts_resolved ELSE 0

\* the conflicts of a customer that are unresolved in cf
Unresolved(cf, cid) ==
    { i \in 1..Len(cf) : cf[i].customer_id = cid /\ cf[i].resolution = "unresolved" }

\* C27: in every step the conflicts_resolved counter of each customer grows by the
\* number of its conflicts that change from 'unresolved' to resolved in that step, so
\* no conflict is counted more than once.
C27_CountedOnce ==
    [][\A c \in customers :
          ConflictsResolved(usage', c.id) - ConflictsResolved(usage, c.id)
            = Cardinality(Unresolved(conflicts, c.id) \ Unresolved(conflicts', c.id))]_vars


\* C21: a POST of a customer.subscription.deleted event with a verifying signature
\* for a subscription that has a row leaves that row with status 'canceled' and the
\* user the row names with subscription_tier 'free'; a POST whose signature does not
\* verify is answered 400 and writes nothing.
C21_SubscriptionDeleted ==
    \A req \in WebhookReqs :
        LET r        == webhook(subscriptions, users, usage_logs, req)
            verifies == req.sig.key = webhookSecret /\ req.sig.payload = req.body
        IN  req.method = "POST" =>
              /\ (/\ verifies
                  /\ req.body.type = "customer.subscription.deleted"
                  /\ req.body.sub \in DOMAIN subscriptions) =>
                    /\ r.code = 200
                    /\ r.subscriptions[req.body.sub].status = "canceled"
                    /\ r.users[subscriptions[req.body.sub].user_id].subscription_tier = "free"
              /\ ~verifies =>
                    /\ r.code = 400
                    /\ r.subscriptions = subscriptions
                    /\ r.users = users
                    /\ r.usage_logs = usage_logs

\* C21 witness: the webhook has just answered a verified deletion of sub_1, whose row
\* is canceled and whose user, upgraded to pro at checkout, is back on the free tier,
\* while the other subscription is untouched
C21_Witness ==
    /\ hook = [type |-> "customer.subscription.deleted", sub |-> "sub_1",
               verified |-> TRUE, code |-> 200]
    /\ DOMAIN subscriptions = {"sub_1", "sub_2"}
    /\ subscriptions["sub_1"].status = "canceled"
    /\ subscriptions["sub_1"].user_id = "u1"
    /\ users["u1"].subscription_tier = "free"
    /\ subscriptions["sub_2"].status = "active"
    /\ users[subscriptions["sub_2"].user_id].subscription_tier = "pro"

====
